------------------------------- MODULE SshProofs -------------------------------
(***************************************************************************)
(* Proofs about the package ssh: the registry of MFA challenges, the dial  *)
(* over jump hosts, and, at the end, the two together.                     *)
(*                                                                         *)
(* An MFA answer reaches the challenge it was given for, once, for any     *)
(* number of sessions and rounds.                                          *)
(*                                                                         *)
(* The code finds a challenge by its session id alone.  That the one it    *)
(* finds is the one the user answered rests on two facts: the next round   *)
(* of a session is asked only when the answer of the last one was          *)
(* returned, and a challenge is never at two places at a time.  So an      *)
(* answer still on its way belongs to the round that is pending now.       *)
(***************************************************************************)
EXTENDS SshDial, TLAPS

\* The challenges of the rounds so far.
Asked == {c \in Challenges : c[2] <= round[c[1]]}

\* What is anywhere on its way was asked.
OnlyAsked ==
    /\ events \subseteq Asked
    /\ Shown \subseteq Asked
    /\ Answered \subseteq Asked
    /\ Found \subseteq Asked
    /\ Held \subseteq Asked
    /\ Used \subseteq Asked

\* All rounds but the last, and the last one when it was answered, are over.
EarlierRoundsUsed ==
    \A c \in Asked :
        c[2] < round[c[1]] \/ callback[c[1]] \in {"dialing", "answered"} => c \in Used

\* No challenge is at two of the six places, pair by pair.
Apart ==
    /\ events \cap (Shown \cup Answered \cup Found \cup Held \cup Used) = {}
    /\ Shown \cap (Answered \cup Found \cup Held \cup Used) = {}
    /\ Answered \cap (Found \cup Held \cup Used) = {}
    /\ Found \cap (Held \cup Used) = {}
    /\ Held \cap Used = {}

\* While the callback handles a challenge, there was a round.
RoundAsked ==
    \A s \in Sessions : callback[s] \in {"waiting", "answered", "expired"} => round[s] # 0

\* An answer, and a handler that has found its challenge, is the only one.
NoDouble ==
    /\ \A a, b \in submitted : a[1] = b[1] => a = b
    /\ \A g, h \in sending : g[2][1] = h[2][1] => g = h

IInv ==
    /\ TypeOK
    /\ RoundAsked
    /\ PendingIsLive
    /\ OnlyAsked
    /\ EarlierRoundsUsed
    /\ AnswerMatchesPrompt
    /\ Apart
    /\ NoDouble

\* Apart says of each pair what OneAnswer says of the tuple.
LEMMA ApartIsOneAnswer == OneAnswer <=> Apart /\ NoDouble
<1>1. /\ Places[1] = events /\ Places[2] = Shown /\ Places[3] = Answered
      /\ Places[4] = Found /\ Places[5] = Held /\ Places[6] = Used
  BY DEF Places
<1>2. (\A i, j \in 1..6 : i # j => Places[i] \cap Places[j] = {}) => Apart
  <2> SUFFICES ASSUME \A i, j \in 1..6 : i # j => Places[i] \cap Places[j] = {}
               PROVE  Apart
    OBVIOUS
  <2>1. /\ Places[1] \cap Places[2] = {} /\ Places[1] \cap Places[3] = {}
        /\ Places[1] \cap Places[4] = {} /\ Places[1] \cap Places[5] = {}
        /\ Places[1] \cap Places[6] = {} /\ Places[2] \cap Places[3] = {}
        /\ Places[2] \cap Places[4] = {} /\ Places[2] \cap Places[5] = {}
        /\ Places[2] \cap Places[6] = {} /\ Places[3] \cap Places[4] = {}
        /\ Places[3] \cap Places[5] = {} /\ Places[3] \cap Places[6] = {}
        /\ Places[4] \cap Places[5] = {} /\ Places[4] \cap Places[6] = {}
        /\ Places[5] \cap Places[6] = {}
    OBVIOUS
  <2> QED
    BY <1>1, <2>1, Zenon DEF Apart
<1>3. ASSUME Apart, NEW i \in 1..6, NEW j \in 1..6, i # j
      PROVE  Places[i] \cap Places[j] = {}
  <2>1. i = 1 \/ i = 2 \/ i = 3 \/ i = 4 \/ i = 5 \/ i = 6
    OBVIOUS
  <2>2. j = 1 \/ j = 2 \/ j = 3 \/ j = 4 \/ j = 5 \/ j = 6
    OBVIOUS
  <2> QED
    BY <1>1, <1>3, <2>1, <2>2, SMTT(30) DEF Apart
<1> QED
  BY <1>2, <1>3 DEF OneAnswer, NoDouble

LEMMA InitIInv == Init => IInv
<1> SUFFICES ASSUME Init PROVE IInv
  OBVIOUS
<1> USE RoundsAssumption, NoneAssumption DEF Init
<1>1. TypeOK
  BY DEF TypeOK, Challenges, Rounds, Answers
<1>2. /\ events = {} /\ Shown = {} /\ Answered = {} /\ Found = {} /\ Held = {} /\ Used = {}
  BY DEF Shown, Answered, Found, Held, Used
<1>3. Asked = {}
  BY DEF Asked, Challenges, Rounds
<1> QED
  BY <1>1, <1>2, <1>3 DEF IInv, RoundAsked, PendingIsLive, OnlyAsked, EarlierRoundsUsed,
     AnswerMatchesPrompt, Apart, NoDouble

-----------------------------------------------------------------------------
(* Types                                                                   *)

LEMMA ChallengeParts ==
    /\ \A c \in Challenges : c[1] \in Sessions /\ c[2] \in 1..MaxRounds /\ c = <<c[1], c[2]>>
    /\ \A s \in Sessions, n \in 1..MaxRounds : <<s, n>> \in Challenges
    /\ \A a \in Answers : a[1] \in Challenges /\ a # None
    /\ None \notin Challenges
BY NoneAssumption DEF NoneAssumption, Challenges, Rounds, Answers

LEMMA TypeStep == TypeOK /\ RoundAsked /\ [Next]_vars => TypeOK'
<1> SUFFICES ASSUME TypeOK, RoundAsked, [Next]_vars PROVE TypeOK'
  OBVIOUS
<1> USE ChallengeParts, RoundsAssumption DEF TypeOK, RoundsAssumption
<1>1. ASSUME NEW s \in Sessions, Ask(s) PROVE TypeOK'
  <2>1. round[s] + 1 \in 1..MaxRounds
    BY <1>1 DEF Ask
  <2> QED
    BY <1>1, <2>1 DEF Ask, screenVars
<1>2. ASSUME NEW s \in Sessions, ReceiveResponse(s) PROVE TypeOK'
  <2>1. <<s, round[s]>> \in Challenges
    BY <1>2 DEF RoundAsked, ReceiveResponse
  <2> QED
    BY <1>2, <2>1 DEF ReceiveResponse, screenVars
<1>3. ASSUME NEW s \in Sessions, TimeOut(s) \/ DialEnds(s) PROVE TypeOK'
  BY <1>3 DEF TimeOut, DialEnds, screenVars
<1>4. ASSUME NEW s \in Sessions, Return(s) PROVE TypeOK'
  BY <1>4 DEF Return, screenVars
<1>5. ASSUME NEW c \in Challenges, PromptArrives(c) PROVE TypeOK'
  BY <1>5 DEF PromptArrives, registryVars
<1>6. CASE Type \/ Cancel
  BY <1>6 DEF Type, Cancel, registryVars
<1>7. CASE Submit
  BY <1>7 DEF Submit, registryVars, Answers
<1>8. ASSUME NEW a \in Answers, LookUp(a) PROVE TypeOK'
  <2> DEFINE s == a[1][1]
  <2>1. s \in Sessions /\ pending[s] \in 0..MaxRounds
    OBVIOUS
  <2>2. pending[s] # 0 => <<s, pending[s]>> \in Challenges
    BY <2>1
  <2>3. <<s, pending[s]>> \in Challenges => << <<s, pending[s]>>, a>> \in Challenges \X Answers
    OBVIOUS
  <2>4. sending' \in SUBSET (Challenges \X Answers)
    BY <1>8, <2>2, <2>3 DEF LookUp
  <2> QED
    BY <1>8, <2>4 DEF LookUp, registryVars, screenVars
<1>9. ASSUME NEW c \in Challenges, NEW a \in Answers, Send(<<c, a>>) PROVE TypeOK'
  BY <1>9 DEF Send, registryVars, screenVars
<1>10. CASE UNCHANGED vars
  BY <1>10 DEF vars
<1> QED
  BY <1>1, <1>2, <1>3, <1>4, <1>5, <1>6, <1>7, <1>8, <1>9, <1>10 DEF Next, Callback

-----------------------------------------------------------------------------
(* What one action does to the rest of the invariant                       *)

\* Everything but the types.
Rest ==
    /\ RoundAsked
    /\ PendingIsLive
    /\ OnlyAsked
    /\ EarlierRoundsUsed
    /\ AnswerMatchesPrompt
    /\ Apart
    /\ NoDouble

\* A step that moves no challenge from its place, and starts no round, disturbs only
\* what the invariant says of the callbacks.
LEMMA NothingMoves ==
    ASSUME IInv,
           UNCHANGED <<round, response, consumed, events, prompt, submitted, sending>>,
           RoundAsked', PendingIsLive', EarlierRoundsUsed'
    PROVE  Rest'
BY DEF Rest, IInv, OnlyAsked, Asked, AnswerMatchesPrompt, Apart, NoDouble, Shown,
   Answered, Found, Held, Used

LEMMA AskRest ==
    ASSUME IInv, TypeOK', NEW s \in Sessions, Ask(s)
    PROVE  Rest'
<1> DEFINE new == <<s, round[s] + 1>>
<1>1. /\ round[s] \in 0..MaxRounds /\ round[s] < MaxRounds
      /\ round' = [round EXCEPT ![s] = @ + 1]
      /\ pending' = [pending EXCEPT ![s] = round[s] + 1]
      /\ callback[s] = "dialing" /\ callback' = [callback EXCEPT ![s] = "waiting"]
      /\ events' = events \cup {new}
      /\ UNCHANGED <<response, consumed, prompt, submitted, sending>>
  BY DEF IInv, TypeOK, Ask, screenVars
<1>2. new \in Challenges /\ new \notin Asked /\ new[1] = s /\ new[2] = round[s] + 1
  BY <1>1, ChallengeParts, RoundsAssumption DEF Asked, RoundsAssumption
<1>3. Asked' = Asked \cup {new}
  <2>1. ASSUME NEW c \in Challenges PROVE c \in Asked' <=> c \in Asked \/ c = new
    BY <1>1, <1>2, ChallengeParts, RoundsAssumption
       DEF Asked, IInv, TypeOK, RoundsAssumption
  <2> QED
    BY <1>2, <2>1 DEF Asked
<1>4. UNCHANGED <<Shown, Answered, Found, Held, Used>>
  BY <1>1 DEF Shown, Answered, Found, Held, Used
<1>5. PendingIsLive' /\ RoundAsked'
  BY <1>1 DEF IInv, TypeOK, PendingIsLive, RoundAsked
<1>6. OnlyAsked'
  BY <1>1, <1>3, <1>4 DEF IInv, OnlyAsked
<1>7. EarlierRoundsUsed'
  <2> SUFFICES ASSUME NEW c \in Asked',
                      c[2] < round'[c[1]] \/ callback'[c[1]] \in {"dialing", "answered"}
               PROVE  c \in Used
    BY <1>4 DEF EarlierRoundsUsed
  <2>1. c \in Challenges /\ c[1] \in Sessions /\ c[2] \in 1..MaxRounds
    BY ChallengeParts DEF Asked
  <2>2. CASE c[1] = s
    <3>1. c # new
      BY <1>1, <1>2, <2>2 DEF IInv, TypeOK
    <3>2. c \in Asked /\ callback[c[1]] = "dialing"
      BY <1>1, <1>3, <2>2, <3>1
    <3> QED
      BY <3>2 DEF IInv, EarlierRoundsUsed
  <2>3. CASE c[1] # s
    <3>1. c \in Asked /\ round'[c[1]] = round[c[1]] /\ callback'[c[1]] = callback[c[1]]
      BY <1>1, <1>2, <1>3, <2>1, <2>3 DEF IInv, TypeOK
    <3> QED
      BY <3>1 DEF IInv, EarlierRoundsUsed
  <2> QED
    BY <2>2, <2>3
<1>8. Apart'
  BY <1>1, <1>2, <1>4 DEF IInv, Apart, OnlyAsked
<1>9. AnswerMatchesPrompt' /\ NoDouble'
  BY <1>1 DEF IInv, AnswerMatchesPrompt, NoDouble
<1> QED
  BY <1>5, <1>6, <1>7, <1>8, <1>9 DEF Rest

LEMMA ReceiveRest ==
    ASSUME IInv, TypeOK', NEW s \in Sessions, ReceiveResponse(s)
    PROVE  Rest'
<1> DEFINE c == <<s, round[s]>>
<1>1. /\ callback[s] = "waiting" /\ callback' = [callback EXCEPT ![s] = "answered"]
      /\ response[c] # None
      /\ consumed' = [consumed EXCEPT ![c] = response[c]]
      /\ response' = [response EXCEPT ![c] = None]
      /\ UNCHANGED <<round, pending, events, prompt, submitted, sending>>
  BY DEF ReceiveResponse, screenVars
<1>2. c \in Challenges
  BY <1>1, ChallengeParts, RoundsAssumption DEF IInv, TypeOK, RoundAsked, RoundsAssumption
<1>3. /\ Held' = Held \ {c} /\ Used' = Used \cup {c} /\ c \in Held
      /\ UNCHANGED <<events, Shown, Answered, Found, Asked>>
  BY <1>1, <1>2 DEF IInv, TypeOK, Held, Used, Shown, Answered, Found, Asked
<1>4. PendingIsLive' /\ RoundAsked'
  BY <1>1 DEF IInv, TypeOK, PendingIsLive, RoundAsked
<1>5. OnlyAsked' /\ Apart'
  BY <1>3 DEF IInv, OnlyAsked, Apart
<1>6. EarlierRoundsUsed'
  <2> SUFFICES ASSUME NEW d \in Asked,
                      d[2] < round[d[1]] \/ callback'[d[1]] \in {"dialing", "answered"},
                      d # c
               PROVE  d \in Used
    BY <1>1, <1>3 DEF EarlierRoundsUsed
  <2>1. d \in Challenges /\ d[1] \in Sessions /\ d[2] \in 1..MaxRounds /\ d = <<d[1], d[2]>>
        /\ d[2] <= round[d[1]]
    BY ChallengeParts DEF Asked
  <2>2. CASE d[1] = s
    <3>1. d[2] # round[d[1]]
      BY <2>1, <2>2
    <3>2. d[2] < round[d[1]]
      BY <2>1, <3>1 DEF IInv, TypeOK
    <3> QED
      BY <3>2 DEF IInv, EarlierRoundsUsed
  <2>3. CASE d[1] # s
    BY <1>1, <2>1, <2>3 DEF IInv, TypeOK, EarlierRoundsUsed
  <2> QED
    BY <2>2, <2>3
<1>7. AnswerMatchesPrompt'
  BY <1>1, <1>2 DEF IInv, TypeOK, AnswerMatchesPrompt
<1>8. NoDouble'
  BY <1>1 DEF IInv, NoDouble
<1> QED
  BY <1>4, <1>5, <1>6, <1>7, <1>8 DEF Rest

LEMMA ReturnRest ==
    ASSUME IInv, TypeOK', NEW s \in Sessions, TimeOut(s) \/ Return(s) \/ DialEnds(s)
    PROVE  Rest'
<1>1. /\ UNCHANGED <<round, response, consumed, events, prompt, submitted, sending>>
      /\ \/ /\ callback[s] = "waiting" /\ callback' = [callback EXCEPT ![s] = "expired"]
            /\ pending' = pending
         \/ /\ callback[s] = "answered" /\ callback' = [callback EXCEPT ![s] = "dialing"]
            /\ pending' = [pending EXCEPT ![s] = 0]
         \/ /\ callback[s] = "expired" /\ callback' = [callback EXCEPT ![s] = "over"]
            /\ pending' = [pending EXCEPT ![s] = 0]
         \/ /\ callback[s] = "dialing" /\ callback' = [callback EXCEPT ![s] = "over"]
            /\ pending' = pending
  BY DEF TimeOut, Return, DialEnds, screenVars
<1>2. RoundAsked' /\ PendingIsLive'
  BY <1>1 DEF IInv, TypeOK, RoundAsked, PendingIsLive
<1>3. EarlierRoundsUsed'
  <2> SUFFICES ASSUME NEW c \in Asked,
                      c[2] < round[c[1]] \/ callback'[c[1]] \in {"dialing", "answered"}
               PROVE  c \in Used
    BY <1>1 DEF EarlierRoundsUsed, Asked, Used
  <2>1. c[1] \in Sessions
    BY ChallengeParts DEF Asked
  <2>2. callback'[c[1]] \in {"dialing", "answered"} => callback[c[1]] \in {"dialing", "answered"}
    BY <1>1, <2>1 DEF IInv, TypeOK
  <2> QED
    BY <2>2 DEF IInv, EarlierRoundsUsed
<1> QED
  BY <1>1, <1>2, <1>3, NothingMoves

\* A step of the frontend: it moves challenges, and leaves the registry alone.
LEMMA RegistryStays ==
    ASSUME IInv, UNCHANGED <<registryVars, response, sending>>,
           events' \cup Shown' \cup Answered' \subseteq Asked,
           Apart', NoDouble'
    PROVE  Rest'
<1>1. UNCHANGED <<callback, round, pending, consumed, response, sending>>
  BY DEF registryVars
<1>2. UNCHANGED <<Asked, Found, Held, Used>>
  BY <1>1 DEF Asked, Found, Held, Used
<1>3. RoundAsked' /\ PendingIsLive' /\ AnswerMatchesPrompt'
  BY <1>1 DEF IInv, RoundAsked, PendingIsLive, AnswerMatchesPrompt
<1>4. OnlyAsked' /\ EarlierRoundsUsed'
  BY <1>1, <1>2 DEF IInv, OnlyAsked, EarlierRoundsUsed
<1> QED
  BY <1>3, <1>4 DEF Rest

LEMMA PromptArrivesRest ==
    ASSUME IInv, NEW c \in Challenges, PromptArrives(c)
    PROVE  Rest'
<1>1. /\ c \in events /\ events' = events \ {c} /\ prompt' = c
      /\ UNCHANGED <<registryVars, response, submitted, sending>>
      /\ UNCHANGED <<consumed>>
  BY DEF PromptArrives, registryVars
<1>2. Shown' = {c}
  BY <1>1, ChallengeParts DEF Shown
<1>3. UNCHANGED <<Answered, Found, Held, Used>>
  BY <1>1 DEF Answered, Found, Held, Used
<1>4. Apart' /\ NoDouble' /\ events' \cup Shown' \cup Answered' \subseteq Asked
  BY <1>1, <1>2, <1>3 DEF IInv, Apart, NoDouble, OnlyAsked
<1> QED
  BY <1>1, <1>4, RegistryStays

LEMMA SubmitRest ==
    ASSUME IInv, Submit
    PROVE  Rest'
<1>1. /\ prompt # None /\ prompt' = None /\ submitted' = submitted \cup {<<prompt, text>>}
      /\ UNCHANGED <<registryVars, response, events, sending>>
      /\ UNCHANGED <<consumed>>
  BY DEF Submit, registryVars
<1>2. Shown = {prompt} /\ Shown' = {}
  BY <1>1 DEF Shown
<1>3. Answered' = Answered \cup {prompt} /\ prompt \notin Answered
  <2>1. prompt \notin Answered
    BY <1>2 DEF IInv, Apart
  <2>2. <<prompt, text>>[1] = prompt
    OBVIOUS
  <2> QED
    BY <1>1, <2>1, <2>2 DEF Answered
<1>4. UNCHANGED <<Found, Held, Used>>
  BY <1>1 DEF Found, Held, Used
<1>5. Apart' /\ events' \cup Shown' \cup Answered' \subseteq Asked
  BY <1>1, <1>2, <1>3, <1>4 DEF IInv, Apart, OnlyAsked
<1>6. NoDouble'
  <2>1. ASSUME NEW a \in submitted', NEW b \in submitted', a[1] = b[1] PROVE a = b
    <3>1. ASSUME NEW d \in submitted PROVE d[1] # prompt
      BY <1>3, <3>1 DEF Answered
    <3>2. CASE a \in submitted /\ b \in submitted
      BY <2>1, <3>2 DEF IInv, NoDouble
    <3>3. CASE a = <<prompt, text>> \/ b = <<prompt, text>>
      BY <1>1, <2>1, <3>1, <3>3
    <3> QED
      BY <1>1, <3>2, <3>3
  <2> QED
    BY <1>1, <2>1 DEF IInv, NoDouble
<1> QED
  BY <1>1, <1>5, <1>6, RegistryStays

LEMMA ScreenRest ==
    ASSUME IInv, Type \/ Cancel
    PROVE  Rest'
<1>1. /\ prompt' \in {prompt, None}
      /\ UNCHANGED <<registryVars, response, events, submitted, sending>>
      /\ UNCHANGED <<consumed>>
  BY DEF Type, Cancel, registryVars
<1>2. Shown' \subseteq Shown
  BY <1>1 DEF Shown
<1>3. UNCHANGED <<Answered, Found, Held, Used>>
  BY <1>1 DEF Answered, Found, Held, Used
<1>4. Apart' /\ NoDouble' /\ events' \cup Shown' \cup Answered' \subseteq Asked
  BY <1>1, <1>2, <1>3 DEF IInv, Apart, NoDouble, OnlyAsked
<1> QED
  BY <1>1, <1>4, RegistryStays

\* The challenge that the handler finds is the one that was answered: an earlier one of
\* the session was used, and then no answer for it is on its way.
LEMMA FindsOwnChallenge ==
    ASSUME IInv, NEW a \in submitted, pending[a[1][1]] # 0
    PROVE  a[1] = <<a[1][1], pending[a[1][1]]>>
<1> DEFINE s == a[1][1]
           n == a[1][2]
<1>1. a[1] \in Answered
  BY DEF Answered
<1>2. a[1] \in Asked /\ a[1] \notin Used
  BY <1>1 DEF IInv, OnlyAsked, Apart
<1>3. s \in Sessions /\ n \in 1..MaxRounds /\ a[1] = <<s, n>> /\ n <= round[s]
  BY <1>2, ChallengeParts DEF Asked
<1>4. ~(n < round[s])
  BY <1>2 DEF IInv, EarlierRoundsUsed
<1>5. pending[s] = round[s]
  BY <1>3 DEF IInv, PendingIsLive
<1> QED
  BY <1>3, <1>4, <1>5 DEF IInv, TypeOK

LEMMA LookUpRest ==
    ASSUME IInv, NEW a \in Answers, LookUp(a)
    PROVE  Rest'
<1> DEFINE h == << <<a[1][1], pending[a[1][1]]>>, a>>
<1>1. /\ a \in submitted /\ submitted' = submitted \ {a}
      /\ sending' = IF pending[a[1][1]] = 0 THEN sending ELSE sending \cup {h}
      /\ UNCHANGED <<callback, round, pending, consumed, response, events, prompt>>
  BY DEF LookUp, registryVars, screenVars
<1>2. pending[a[1][1]] # 0 => h[1] = a[1] /\ h[2] = a
  BY <1>1, FindsOwnChallenge
<1> HIDE DEF h
<1>3. a[1] \in Answered
  BY <1>1 DEF Answered
<1>4. Answered' \subseteq Answered /\ a[1] \notin Answered'
  BY <1>1 DEF IInv, NoDouble, Answered
<1>5. Found' \subseteq Found \cup {a[1]}
  BY <1>1, <1>2 DEF Found
<1>6. UNCHANGED <<Asked, Shown, Held, Used>>
  BY <1>1 DEF Asked, Shown, Held, Used
<1>7. RoundAsked' /\ PendingIsLive'
  BY <1>1 DEF IInv, RoundAsked, PendingIsLive
<1>8. OnlyAsked'
  BY <1>1, <1>3, <1>4, <1>5, <1>6 DEF IInv, OnlyAsked
<1>9. EarlierRoundsUsed'
  BY <1>1, <1>6 DEF IInv, EarlierRoundsUsed
<1>10. AnswerMatchesPrompt'
  BY <1>1, <1>2 DEF IInv, AnswerMatchesPrompt
<1>11. Apart'
  BY <1>1, <1>3, <1>4, <1>5, <1>6 DEF IInv, Apart
<1>12. NoDouble'
  <2>1. \A g \in sending : g[2][1] # a[1]
    BY <1>3 DEF IInv, Apart, Found
  <2> QED
    BY <1>1, <1>2, <2>1 DEF IInv, NoDouble
<1> QED
  BY <1>7, <1>8, <1>9, <1>10, <1>11, <1>12 DEF Rest

LEMMA SendRest ==
    ASSUME IInv, NEW c \in Challenges, NEW a \in Answers, Send(<<c, a>>)
    PROVE  Rest'
<1> DEFINE h == <<c, a>>
<1>1. /\ h \in sending /\ sending' = sending \ {h} /\ h[1] = c /\ h[2] = a
      /\ response' = IF response[c] = None THEN [response EXCEPT ![c] = a] ELSE response
      /\ UNCHANGED <<callback, round, pending, consumed, events, prompt, submitted>>
  BY DEF Send, registryVars, screenVars
<1>2. a[1] = c
  BY <1>1 DEF IInv, AnswerMatchesPrompt
<1>3. c \in Found
  BY <1>1, <1>2 DEF Found
<1>4. Found' \subseteq Found /\ c \notin Found'
  <2>1. ASSUME NEW g \in sending', g[2][1] = c PROVE FALSE
    BY <1>1, <1>2, <2>1 DEF IInv, NoDouble
  <2> QED
    BY <1>1, <2>1 DEF Found
<1>5. Held' \subseteq Held \cup {c}
  BY <1>1 DEF IInv, TypeOK, Held
<1>6. UNCHANGED <<Asked, Shown, Answered, Used>>
  BY <1>1 DEF Asked, Shown, Answered, Used
<1>7. RoundAsked' /\ PendingIsLive'
  BY <1>1 DEF IInv, RoundAsked, PendingIsLive
<1>8. OnlyAsked' /\ Apart'
  BY <1>1, <1>3, <1>4, <1>5, <1>6 DEF IInv, OnlyAsked, Apart
<1>9. EarlierRoundsUsed'
  BY <1>1, <1>6 DEF IInv, EarlierRoundsUsed
<1>10. AnswerMatchesPrompt'
  BY <1>1, <1>2 DEF IInv, TypeOK, AnswerMatchesPrompt
<1>11. NoDouble'
  BY <1>1 DEF IInv, NoDouble
<1> QED
  BY <1>7, <1>8, <1>9, <1>10, <1>11 DEF Rest

-----------------------------------------------------------------------------
(* The theorems                                                            *)

LEMMA StepIInv == IInv /\ [Next]_vars => IInv'
<1> SUFFICES ASSUME IInv, [Next]_vars PROVE IInv'
  OBVIOUS
<1>1. TypeOK'
  BY TypeStep DEF IInv
<1>2. Rest'
  <2>1. ASSUME NEW s \in Sessions, Ask(s) PROVE Rest'
    BY <1>1, <2>1, AskRest
  <2>2. ASSUME NEW s \in Sessions, ReceiveResponse(s) PROVE Rest'
    BY <1>1, <2>2, ReceiveRest
  <2>3. ASSUME NEW s \in Sessions, TimeOut(s) \/ Return(s) \/ DialEnds(s) PROVE Rest'
    BY <1>1, <2>3, ReturnRest
  <2>4. ASSUME NEW c \in Challenges, PromptArrives(c) PROVE Rest'
    BY <2>4, PromptArrivesRest
  <2>5. CASE Submit
    BY <2>5, SubmitRest
  <2>6. CASE Type \/ Cancel
    BY <2>6, ScreenRest
  <2>7. ASSUME NEW a \in Answers, LookUp(a) PROVE Rest'
    BY <2>7, LookUpRest
  <2>8. ASSUME NEW c \in Challenges, NEW a \in Answers, Send(<<c, a>>) PROVE Rest'
    BY <2>8, SendRest
  <2>9. CASE UNCHANGED vars
    <3>1. RoundAsked' /\ PendingIsLive' /\ EarlierRoundsUsed'
      BY <2>9 DEF vars, IInv, RoundAsked, PendingIsLive, EarlierRoundsUsed, Asked, Used
    <3> QED
      BY <2>9, <3>1, NothingMoves DEF vars
  <2> QED
    BY <2>1, <2>2, <2>3, <2>4, <2>5, <2>6, <2>7, <2>8, <2>9 DEF Next, Callback
<1> QED
  BY <1>1, <1>2 DEF IInv, Rest

\* The inductive invariant holds in every state, for every number of sessions and rounds.
THEOREM Invariance == Spec => []IInv
<1>1. Init => IInv
  BY InitIInv
<1>2. IInv /\ [Next]_vars => IInv'
  BY StepIInv
<1> QED
  BY <1>1, <1>2, PTL DEF Spec

\* The challenges, answers and channels keep their types.
THEOREM TypesCorrect == Spec => []TypeOK
<1>1. IInv => TypeOK
  BY DEF IInv
<1> QED
  BY <1>1, Invariance, PTL

\* The map of pending challenges holds a session's challenge exactly while the callback
\* that registered it is still to return.
THEOREM PendingLive == Spec => []PendingIsLive
<1>1. IInv => PendingIsLive
  BY DEF IInv
<1> QED
  BY <1>1, Invariance, PTL

\* A lookup by session id alone never hands an answer to another round's challenge.
THEOREM AnswersMatch == Spec => []AnswerMatchesPrompt
<1>1. IInv => AnswerMatchesPrompt
  BY DEF IInv
<1> QED
  BY <1>1, Invariance, PTL

\* A challenge is at one place between the server and the callback, so the channel of
\* capacity 1 is never full and no answer is dropped for that reason.
THEOREM AnsweredOnce == Spec => []OneAnswer
<1>1. IInv => OneAnswer
  BY ApartIsOneAnswer DEF IInv
<1> QED
  BY <1>1, Invariance, PTL

-----------------------------------------------------------------------------
(* MfaRegistry implements MfaExchange.                                      *)

\* A challenge that still waits, or that timed out, has not been used.
OpenUnused ==
    \A s \in Sessions : callback[s] \in {"waiting", "expired"} => <<s, round[s]>> \notin Used

LEMMA OpenUnusedStep == IInv /\ OpenUnused /\ [Next]_vars => OpenUnused'
<1> SUFFICES ASSUME IInv, OpenUnused, [Next]_vars PROVE OpenUnused'
  OBVIOUS
<1>1. ASSUME NEW s \in Sessions, Ask(s) PROVE OpenUnused'
  <2>1. /\ round' = [round EXCEPT ![s] = @ + 1] /\ callback' = [callback EXCEPT ![s] = "waiting"]
        /\ consumed' = consumed
    BY <1>1 DEF Ask
  <2>2. <<s, round[s] + 1>> \notin Used
    BY DEF IInv, TypeOK, OnlyAsked, Asked
  <2> QED
    BY <2>1, <2>2 DEF IInv, TypeOK, OpenUnused, Used
<1>2. ASSUME NEW s \in Sessions, ReceiveResponse(s) PROVE OpenUnused'
  <2>1. /\ callback' = [callback EXCEPT ![s] = "answered"] /\ round' = round
        /\ consumed' = [consumed EXCEPT ![<<s, round[s]>>] = response[<<s, round[s]>>]]
    BY <1>2 DEF ReceiveResponse
  <2>2. Used' \subseteq Used \cup {<<s, round[s]>>}
    BY <2>1 DEF IInv, TypeOK, Used
  <2> QED
    BY <2>1, <2>2 DEF IInv, TypeOK, OpenUnused
<1>3. ASSUME NEW s \in Sessions, TimeOut(s) \/ Return(s) \/ DialEnds(s) PROVE OpenUnused'
  BY <1>3 DEF TimeOut, Return, DialEnds, IInv, TypeOK, OpenUnused, Used
<1>4. ASSUME UNCHANGED registryVars PROVE OpenUnused'
  BY <1>4 DEF registryVars, OpenUnused, Used
<1>5. UNCHANGED vars => UNCHANGED registryVars
  BY DEF vars, registryVars
<1> QED
  BY <1>1, <1>2, <1>3, <1>4, <1>5
     DEF Next, Callback, PromptArrives, Type, Submit, Cancel, LookUp, Send

\* An answer travels as an event, in a handler or in a channel.
LEMMA TravellingIs ==
    \A x : x \in Travelling <=>
        \/ x \in submitted
        \/ \E h \in sending : x = h[2]
        \/ \E c \in Challenges : response[c] # None /\ x = response[c]
BY DEF Travelling, Held

LEMMA ExchangeInit == Init => Exchange!Init
<1> SUFFICES ASSUME Init PROVE Exchange!Init
  OBVIOUS
<1>1. Travelling = {} /\ Returned = {} /\ Unanswered = {} /\ Over = {}
  BY DEF Init, Travelling, Returned, Unanswered, Over, Held, Used, Shown
<1> QED
  BY <1>1 DEF Init, Exchange!Init

LEMMA ExchangeAsk ==
    ASSUME IInv, NEW s \in Sessions, Ask(s)
    PROVE  Exchange!Ask(s)
<1>1. /\ callback[s] = "dialing" /\ callback' = [callback EXCEPT ![s] = "waiting"]
      /\ round[s] < MaxRounds /\ round' = [round EXCEPT ![s] = @ + 1]
      /\ pending' = [pending EXCEPT ![s] = round[s] + 1]
      /\ events' = events \cup {<<s, round[s] + 1>>}
      /\ UNCHANGED <<response, consumed, prompt, submitted, sending>>
  BY DEF Ask, screenVars
<1>2. pending[s] = 0 /\ round'[s] = round[s] + 1
  BY <1>1 DEF IInv, TypeOK, PendingIsLive
<1>3. UNCHANGED <<Travelling, Returned>> /\ Unanswered' = Unanswered \cup {<<s, round'[s]>>}
  BY <1>1, <1>2 DEF Travelling, Returned, Unanswered, Shown, Held, Used
<1>4. s \notin Over /\ Over' = Over
  BY <1>1 DEF IInv, TypeOK, Over
<1> QED
  BY <1>1, <1>2, <1>3, <1>4 DEF Exchange!Ask

\* The answer that the callback takes is nowhere else, and is the one for its challenge.
LEMMA ExchangeUse ==
    ASSUME IInv, NEW s \in Sessions, ReceiveResponse(s)
    PROVE  \E t \in Challenges : Exchange!Use(s, t)
<1> DEFINE c == <<s, round[s]>>
           a == response[c]
<1>1. /\ callback[s] = "waiting" /\ callback' = [callback EXCEPT ![s] = "answered"]
      /\ a # None
      /\ consumed' = [consumed EXCEPT ![c] = a]
      /\ response' = [response EXCEPT ![c] = None]
      /\ UNCHANGED <<round, pending, events, prompt, submitted, sending>>
  BY DEF ReceiveResponse, screenVars
<1>2. c \in Challenges
  BY <1>1, ChallengeParts, RoundsAssumption DEF IInv, TypeOK, RoundAsked, RoundsAssumption
<1>3. a \in Answers /\ a[1] = c /\ a[2] \in Challenges /\ a = <<c, a[2]>>
  <2>1. a \in Answers /\ a[1] = c
    BY <1>1, <1>2 DEF IInv, TypeOK, AnswerMatchesPrompt
  <2> QED
    BY <2>1 DEF Answers
<1>4. pending[s] = round[s]
  BY <1>1 DEF IInv, PendingIsLive
<1>5. c \in Held
  BY <1>1, <1>2 DEF Held
<1>6. a \in Travelling
  BY <1>1, <1>2, TravellingIs
<1>7. Travelling' = Travelling \ {a}
  <2>1. a \notin submitted
    BY <1>3, <1>5 DEF IInv, Apart, Answered
  <2>2. \A h \in sending : a # h[2]
    BY <1>3, <1>5 DEF IInv, Apart, Found
  <2>3. \A d \in Challenges : d # c /\ response[d] # None => response[d] # a
    BY <1>3 DEF IInv, AnswerMatchesPrompt
  <2>4. \A d \in Challenges : response'[d] = IF d = c THEN None ELSE response[d]
    BY <1>1, <1>2 DEF IInv, TypeOK
  <2>5. Held' = Held \ {c}
    BY <2>4 DEF Held
  <2>6. \A d \in Held' : response'[d] = response[d] /\ d # c
    BY <2>4, <2>5 DEF Held
  <2>7. {response'[d] : d \in Held'} = {response[d] : d \in Held} \ {a}
    BY <1>5, <2>3, <2>5, <2>6 DEF Held
  <2> QED
    BY <1>1, <2>1, <2>2, <2>7 DEF Travelling
<1>8. Returned' = Returned \cup {a}
  <2>1. c \notin Used
    BY <1>5 DEF IInv, Apart
  <2>2. \A d \in Challenges : consumed'[d] = IF d = c THEN a ELSE consumed[d]
    BY <1>1, <1>2 DEF IInv, TypeOK
  <2>3. Used' = Used \cup {c}
    BY <1>1, <1>2, <2>2 DEF Used
  <2>4. \A d \in Used : consumed'[d] = consumed[d]
    BY <2>1, <2>2 DEF Used
  <2> QED
    BY <1>2, <2>2, <2>3, <2>4 DEF Returned
<1>9. UNCHANGED <<Unanswered, Over>>
  BY <1>1 DEF IInv, TypeOK, Unanswered, Over, Shown
<1> HIDE DEF a
<1>10. << <<s, pending[s]>>, a[2]>> = a
  BY <1>3, <1>4
<1>11. Exchange!Use(s, a[2])
  BY <1>1, <1>6, <1>7, <1>8, <1>9, <1>10 DEF Exchange!Use
<1> QED
  BY <1>3, <1>11

\* The callback returns: with its answer the dial goes on, without it is over.
LEMMA ExchangeClose ==
    ASSUME IInv, OpenUnused, NEW s \in Sessions, Return(s)
    PROVE  Exchange!Close(s)
<1> DEFINE c == <<s, round[s]>>
<1>1. /\ callback[s] \in {"answered", "expired"}
      /\ pending' = [pending EXCEPT ![s] = 0]
      /\ callback' = [callback EXCEPT ![s] = IF callback[s] = "answered" THEN "dialing" ELSE "over"]
      /\ UNCHANGED <<round, response, consumed, events, prompt, submitted, sending>>
  BY DEF Return, screenVars
<1>2. pending[s] = round[s] /\ pending[s] # 0 /\ c \in Challenges /\ c \in Asked
  BY <1>1, ChallengeParts DEF IInv, TypeOK, PendingIsLive, RoundAsked, Asked
<1>3. UNCHANGED <<Travelling, Returned, Unanswered>>
  BY <1>1 DEF Travelling, Returned, Unanswered, Shown, Held, Used
<1>4. Over' = IF callback[s] = "answered" THEN Over ELSE Over \cup {s}
  BY <1>1 DEF IInv, TypeOK, Over
<1>5. callback[s] = "answered" <=> \E t \in Challenges : <<c, t>> \in Returned
  <2>1. ASSUME callback[s] = "answered" PROVE \E t \in Challenges : <<c, t>> \in Returned
    <3>1. c \in Used
      BY <1>1, <1>2, <2>1 DEF IInv, EarlierRoundsUsed
    <3>2. consumed[c] \in Answers /\ consumed[c][1] = c /\ consumed[c] \in Returned
      BY <1>2, <3>1 DEF IInv, TypeOK, AnswerMatchesPrompt, Used, Returned
    <3>3. consumed[c] = <<c, consumed[c][2]>> /\ consumed[c][2] \in Challenges
      BY <3>2 DEF Answers
    <3> QED
      BY <3>2, <3>3
  <2>2. ASSUME callback[s] = "expired", NEW t \in Challenges, <<c, t>> \in Returned PROVE FALSE
    <3>1. PICK d \in Used : <<c, t>> = consumed[d]
      BY <2>2 DEF Returned
    <3>2. consumed[d][1] = d
      BY <3>1 DEF IInv, AnswerMatchesPrompt, Used
    <3>3. d = c
      BY <3>1, <3>2
    <3> QED
      BY <2>2, <3>1, <3>3 DEF OpenUnused
  <2> QED
    BY <1>1, <2>1, <2>2
<1> QED
  BY <1>1, <1>2, <1>3, <1>4, <1>5 DEF Exchange!Close

\* An event replaces the prompt on the screen, whose challenge is dismissed.
LEMMA ExchangePrompt ==
    ASSUME IInv, NEW c \in Challenges, PromptArrives(c)
    PROVE  UNCHANGED Exchange!vars \/ \E d \in Challenges : Exchange!Dismiss(d)
<1>1. /\ c \in events /\ events' = events \ {c} /\ prompt' = c
      /\ UNCHANGED <<callback, round, pending, consumed, response, submitted, sending>>
  BY DEF PromptArrives, registryVars
<1>2. UNCHANGED <<Travelling, Returned, Over>>
  BY <1>1 DEF Travelling, Returned, Over, Held, Used
<1>3. Unanswered' = events
  BY <1>1, ChallengeParts DEF Unanswered, Shown
<1>4. CASE prompt = None
  <2>1. Unanswered' = Unanswered
    BY <1>3, <1>4 DEF Unanswered, Shown
  <2> QED
    BY <1>1, <1>2, <2>1 DEF Exchange!vars
<1>5. CASE prompt # None
  <2>1. prompt \in Challenges /\ prompt \in Unanswered /\ Unanswered' = Unanswered \ {prompt}
    BY <1>3, <1>5 DEF IInv, TypeOK, Apart, Unanswered, Shown
  <2> QED
    BY <1>1, <1>2, <2>1 DEF Exchange!Dismiss
<1> QED
  BY <1>4, <1>5

\* A submitted prompt is an answer given; a cancelled one is dismissed.
LEMMA ExchangeScreen ==
    ASSUME IInv, Submit \/ Cancel
    PROVE  \E c \in Challenges : Exchange!Dismiss(c) \/ \E t \in Challenges : Exchange!Give(c, t)
<1>1. /\ prompt # None /\ prompt' = None
      /\ UNCHANGED <<callback, round, pending, consumed, response, events, sending>>
      /\ \/ text # None /\ submitted' = submitted \cup {<<prompt, text>>}
         \/ submitted' = submitted
  BY DEF Submit, Cancel, registryVars
<1>2. UNCHANGED <<Returned, Over>>
  BY <1>1 DEF Returned, Over, Used
<1>3. prompt \in Challenges /\ prompt \in Unanswered /\ Unanswered' = Unanswered \ {prompt}
  BY <1>1 DEF IInv, TypeOK, Apart, Unanswered, Shown
<1>4. CASE text # None /\ submitted' = submitted \cup {<<prompt, text>>}
  <2>1. Travelling' = Travelling \cup {<<prompt, text>>} /\ text \in Challenges
    BY <1>1, <1>4 DEF IInv, TypeOK, Travelling, Held
  <2> QED
    BY <1>1, <1>2, <1>3, <2>1 DEF Exchange!Give
<1>5. CASE submitted' = submitted
  <2>1. Travelling' = Travelling
    BY <1>1, <1>5 DEF Travelling, Held
  <2> QED
    BY <1>1, <1>2, <1>3, <2>1 DEF Exchange!Dismiss
<1> QED
  BY <1>1, <1>4, <1>5

\* A handler finds the challenge, or none: then the dial is over and the answer is lost.
LEMMA ExchangeLookUp ==
    ASSUME IInv, NEW a \in Answers, LookUp(a)
    PROVE  UNCHANGED Exchange!vars \/ Exchange!Lose(a)
<1> DEFINE s == a[1][1]
           h == << <<s, pending[s]>>, a>>
<1>1. /\ a \in submitted /\ submitted' = submitted \ {a}
      /\ sending' = IF pending[s] = 0 THEN sending ELSE sending \cup {h}
      /\ UNCHANGED <<callback, round, pending, consumed, response, events, prompt>>
  BY DEF LookUp, registryVars, screenVars
<1>2. UNCHANGED <<Returned, Over, Unanswered, Held>>
  BY <1>1 DEF Returned, Over, Unanswered, Shown, Held, Used
<1>3. CASE pending[s] # 0
  <2>1. sending' = sending \cup {h} /\ h[2] = a
    BY <1>1, <1>3
  <2> HIDE DEF h
  <2>2. submitted' \cup {g[2] : g \in sending'} = submitted \cup {g[2] : g \in sending}
    BY <1>1, <2>1
  <2>3. Travelling' = Travelling
    BY <1>1, <1>2, <2>2 DEF Travelling
  <2> QED
    BY <1>1, <1>2, <2>3 DEF Exchange!vars
<1>4. CASE pending[s] = 0
  <2>1. a[1] \in Answered /\ a \in Travelling
    BY <1>1 DEF Answered, Travelling
  <2>2. a[1] \in Asked /\ a[1] \notin Used /\ a[1] \notin Found /\ a[1] \notin Held
    BY <2>1 DEF IInv, OnlyAsked, Apart
  <2>3. s \in Sessions /\ round[s] # 0
    BY <2>2, ChallengeParts DEF Asked, IInv, TypeOK
  <2>4. callback[s] # "dialing"
    BY <2>2 DEF IInv, EarlierRoundsUsed
  <2>5. s \in Over
    BY <1>4, <2>3, <2>4 DEF IInv, TypeOK, PendingIsLive, Over
  <2>6. \A g \in sending : g[2] # a
    BY <2>2 DEF Found
  <2>7. \A d \in Held : response[d] # a
    BY <2>2 DEF IInv, AnswerMatchesPrompt, Held
  <2>8. Travelling' = Travelling \ {a}
    BY <1>1, <1>2, <1>4, <2>6, <2>7 DEF Travelling
  <2> QED
    BY <1>1, <1>2, <2>1, <2>5, <2>8 DEF Exchange!Lose
<1> QED
  BY <1>3, <1>4

\* The channel has room for the answer, which is still on its way.
LEMMA ExchangeSend ==
    ASSUME IInv, NEW c \in Challenges, NEW a \in Answers, Send(<<c, a>>)
    PROVE  UNCHANGED Exchange!vars
<1> DEFINE h == <<c, a>>
<1>1. /\ h \in sending /\ sending' = sending \ {h} /\ h[1] = c /\ h[2] = a
      /\ response' = IF response[c] = None THEN [response EXCEPT ![c] = a] ELSE response
      /\ UNCHANGED <<callback, round, pending, consumed, events, prompt, submitted>>
  BY DEF Send, registryVars, screenVars
<1> HIDE DEF h
<1>2. a[1] = c /\ a # None
  BY <1>1, ChallengeParts DEF IInv, AnswerMatchesPrompt
<1>3. c \in Found
  BY <1>1, <1>2 DEF Found
<1>4. response[c] = None
  BY <1>3 DEF IInv, Apart, Held
<1>5. UNCHANGED <<Returned, Over, Unanswered>>
  BY <1>1 DEF Returned, Over, Unanswered, Shown, Used
<1>6. \A d \in Challenges : response'[d] = IF d = c THEN a ELSE response[d]
  BY <1>1, <1>4 DEF IInv, TypeOK
<1>7. Held' = Held \cup {c} /\ c \notin Held
  BY <1>2, <1>4, <1>6 DEF Held
<1>8. {response'[d] : d \in Held'} = {response[d] : d \in Held} \cup {a}
  <2>1. \A d \in Held : response'[d] = response[d]
    BY <1>6, <1>7 DEF Held
  <2> QED
    BY <1>6, <1>7, <2>1
<1>9. {g[2] : g \in sending'} \cup {a} = {g[2] : g \in sending}
  BY <1>1
<1>10. Travelling' = Travelling
  BY <1>1, <1>8, <1>9 DEF Travelling
<1> QED
  BY <1>1, <1>5, <1>10 DEF Exchange!vars

LEMMA ExchangeStep == IInv /\ OpenUnused /\ [Next]_vars => [Exchange!Next]_(Exchange!vars)
<1> SUFFICES ASSUME IInv, OpenUnused, [Next]_vars
             PROVE  [Exchange!Next]_(Exchange!vars)
  OBVIOUS
<1>1. ASSUME NEW s \in Sessions, Ask(s) PROVE Exchange!Next
  BY <1>1, ExchangeAsk DEF Exchange!Next
<1>2. ASSUME NEW s \in Sessions, ReceiveResponse(s) PROVE Exchange!Next
  BY <1>2, ExchangeUse DEF Exchange!Next
<1>3. ASSUME NEW s \in Sessions, Return(s) PROVE Exchange!Next
  BY <1>3, ExchangeClose DEF Exchange!Next
<1>4. ASSUME NEW s \in Sessions, TimeOut(s) PROVE UNCHANGED Exchange!vars
  BY <1>4 DEF TimeOut, screenVars, Exchange!vars, IInv, TypeOK, Travelling, Returned,
     Unanswered, Over, Held, Used, Shown
<1>5. ASSUME NEW s \in Sessions, DialEnds(s) PROVE Exchange!Next
  <2>1. /\ callback[s] = "dialing" /\ callback' = [callback EXCEPT ![s] = "over"]
        /\ UNCHANGED <<round, pending, response, consumed, events, prompt, submitted, sending>>
    BY <1>5 DEF DialEnds, screenVars
  <2>2. pending[s] = 0 /\ Over' = Over \cup {s}
    BY <2>1 DEF IInv, TypeOK, PendingIsLive, Over
  <2>3. Exchange!End(s)
    BY <2>1, <2>2 DEF Exchange!End, Travelling, Returned, Unanswered, Held, Used, Shown
  <2> QED
    BY <2>3 DEF Exchange!Next
<1>6. ASSUME NEW c \in Challenges, PromptArrives(c) PROVE [Exchange!Next]_(Exchange!vars)
  BY <1>6, ExchangePrompt DEF Exchange!Next, Exchange!Challenges, Challenges, Rounds
<1>7. CASE Submit \/ Cancel
  BY <1>7, ExchangeScreen DEF Exchange!Next, Exchange!Challenges, Challenges, Rounds
<1>8. CASE Type
  BY <1>8 DEF Type, registryVars, Exchange!vars, Travelling, Returned, Unanswered, Over,
     Held, Used, Shown
<1>9. ASSUME NEW a \in Answers, LookUp(a) PROVE [Exchange!Next]_(Exchange!vars)
  BY <1>9, ExchangeLookUp DEF Exchange!Next, Exchange!Challenges, Challenges, Rounds, Answers
<1>10. ASSUME NEW c \in Challenges, NEW a \in Answers, Send(<<c, a>>)
       PROVE  UNCHANGED Exchange!vars
  BY <1>10, ExchangeSend
<1>11. CASE UNCHANGED vars
  BY <1>11 DEF vars, Exchange!vars, Travelling, Returned, Unanswered, Over, Held, Used, Shown
<1> QED
  BY <1>1, <1>2, <1>3, <1>4, <1>5, <1>6, <1>7, <1>8, <1>9, <1>10, <1>11 DEF Next, Callback

\* Lookups by session id, handlers without the lock, late answers and timeouts together
\* keep the promise of MfaExchange, for any number of sessions and rounds.
THEOREM RefinesExchange == Spec => ImplementsExchange
<1>1. Init => IInv /\ OpenUnused /\ Exchange!Init
  BY InitIInv, ExchangeInit DEF Init, OpenUnused
<1>2. IInv /\ OpenUnused /\ [Next]_vars => IInv' /\ OpenUnused' /\ [Exchange!Next]_(Exchange!vars)
  BY StepIInv, OpenUnusedStep, ExchangeStep
<1> QED
  BY <1>1, <1>2, PTL DEF Spec, ImplementsExchange, Exchange!Spec

(***************************************************************************)
(* The dial itself.  Its chain of clients is never cut by the program while *)
(* it is in use, and its end is closed after it, for lists of jump hosts of *)
(* any length.                                                             *)
(***************************************************************************)
\* How far the dial is in its list of hops.
Progress ==
    /\ phase \in {"idle", "panicked"} => top = 0
    /\ phase \in {"resolve", "dial", "failed"} => top <= hops
    /\ phase \in {"connected", "ended"} => top = hops + 1

\* A client is open only if it was dialled; the last one was closed in the end.
Dialled ==
    /\ alive \subseteq 1..top
    /\ phase \in {"failed", "ended"} => top \notin alive

DialInv == DialTypeOK /\ Progress /\ Dialled /\ ChainIntact

LEMMA InitDialInv == DialInit => DialInv
BY HopsAssumption DEF HopsAssumption, DialInit, DialInv, DialTypeOK, Progress, Dialled,
       ChainIntact, Clients

\* A client more at the end of a whole chain.
LEMMA ConnectedKeeps ==
    ASSUME DialInv, phase = "dial", top <= hops, Connected,
           phase' \in {"resolve", "connected"},
           phase' = "resolve" => top < hops, phase' = "connected" => top = hops
    PROVE  DialInv'
<1>1. /\ hops \in 0..MaxHops /\ top \in 0..MaxHops + 1 /\ MaxHops \in Nat
      /\ top' = top + 1 /\ hops' = hops /\ dropped' = dropped
      /\ alive' = alive \cup {top + 1}
  BY HopsAssumption DEF HopsAssumption, DialInv, DialTypeOK, Connected
<1>2. DialTypeOK'
  BY <1>1 DEF DialInv, DialTypeOK, Clients
<1>3. Progress'
  BY <1>1 DEF Progress
<1>4. Dialled'
  BY <1>1 DEF DialInv, Dialled
<1>5. ChainIntact'
  <2>1. ASSUME NEW i \in 1..top + 1 PROVE i \in alive' \/ \E j \in 1..i : j \in dropped'
    BY <1>1, <2>1 DEF DialInv, ChainIntact
  <2> QED
    BY <1>1, <2>1 DEF ChainIntact
<1> QED
  BY <1>2, <1>3, <1>4, <1>5 DEF DialInv

LEMMA StepDialInv ==
    ASSUME DialInv, [DialNext]_dialVars
    PROVE  DialInv'
<1> USE HopsAssumption DEF HopsAssumption
<1>1. ASSUME NEW n \in 0..MaxHops, StartSession(n) PROVE DialInv'
  BY <1>1 DEF StartSession, DialInv, DialTypeOK, Progress, Dialled, ChainIntact,
              Clients
<1>2. CASE StartFails \/ TestConnection
  <2>1. /\ phase = "idle" /\ phase' \in {"failed", "panicked"}
        /\ UNCHANGED <<hops, top, alive, dropped>>
    BY <1>2 DEF StartFails, TestConnection
  <2>2. top = 0 /\ alive = {}
    BY <2>1 DEF DialInv, Progress, Dialled
  <2> QED
    BY <2>1, <2>2 DEF DialInv, DialTypeOK, Progress, Dialled, ChainIntact
<1>3. CASE Resolve
  BY <1>3 DEF Resolve, DialInv, DialTypeOK, Progress, Dialled, ChainIntact,
              Clients
<1>4. CASE DialHop
  BY <1>4, ConnectedKeeps DEF DialHop, DialInv, DialTypeOK
<1>5. CASE DialTarget
  BY <1>5, ConnectedKeeps DEF DialTarget, DialInv, DialTypeOK
<1>6. CASE DialFails
  BY <1>6 DEF DialFails, DialInv, DialTypeOK, Progress, Dialled, ChainIntact,
              Clients
<1>7. CASE CloseClient
  BY <1>7 DEF CloseClient, DialInv, DialTypeOK, Progress, Dialled, ChainIntact,
              Clients
<1>8. ASSUME NEW k \in Clients, HostDrops(k) PROVE DialInv'
  <2>1. DialTypeOK' /\ Progress' /\ Dialled'
    BY <1>8 DEF HostDrops, DialInv, DialTypeOK, Progress, Dialled, Clients
  <2>2. ChainIntact'
    <3> SUFFICES ASSUME phase \in {"resolve", "dial", "connected"}, NEW i \in 1..top
                 PROVE  i \in alive' \/ \E j \in 1..i : j \in dropped'
      BY <1>8 DEF HostDrops, ChainIntact
    <3>1. CASE i = k
      BY <1>8, <3>1 DEF HostDrops, DialInv, DialTypeOK
    <3>2. CASE i # k
      BY <1>8, <3>2 DEF HostDrops, DialInv, ChainIntact
    <3> QED
      BY <3>1, <3>2
  <2> QED
    BY <2>1, <2>2 DEF DialInv
<1>9. ASSUME NEW k \in Clients, ChannelBreaks(k) PROVE DialInv'
  <2>1. DialTypeOK' /\ Progress' /\ Dialled'
    BY <1>9 DEF ChannelBreaks, DialInv, DialTypeOK, Progress, Dialled, Clients
  <2>2. ChainIntact'
    <3> SUFFICES ASSUME phase \in {"resolve", "dial", "connected"}, NEW i \in 1..top
                 PROVE  i \in alive' \/ \E j \in 1..i : j \in dropped
      BY <1>9 DEF ChannelBreaks, ChainIntact
    <3>1. CASE i = k
      <4>1. i - 1 \in 1..top /\ i - 1 \notin alive
        BY <1>9, <3>1 DEF ChannelBreaks, DialInv, DialTypeOK
      <4>2. PICK j \in 1..i - 1 : j \in dropped
        BY <4>1 DEF DialInv, ChainIntact
      <4>3. j \in 1..i
        BY <4>2, <4>1 DEF DialInv, DialTypeOK
      <4> QED
        BY <4>2, <4>3
    <3>2. CASE i # k
      BY <1>9, <3>2 DEF ChannelBreaks, DialInv, ChainIntact
    <3> QED
      BY <3>1, <3>2
  <2> QED
    BY <2>1, <2>2 DEF DialInv
<1>10. CASE UNCHANGED dialVars
  BY <1>10 DEF dialVars, DialInv, DialTypeOK, Progress, Dialled, ChainIntact,
               Clients
<1> QED
  BY <1>1, <1>2, <1>3, <1>4, <1>5, <1>6, <1>7, <1>8, <1>9, <1>10 DEF DialNext

\* The inductive invariant holds in every state, for lists of any length.
THEOREM DialInvariance == DialSpec => []DialInv
<1>1. DialInit => DialInv
  BY InitDialInv
<1>2. DialInv /\ [DialNext]_dialVars => DialInv'
  BY StepDialInv
<1> QED
  BY <1>1, <1>2, PTL DEF DialSpec

\* The phases, counters and sets of clients keep their types.
THEOREM TypesOfDial == DialSpec => []DialTypeOK
<1>1. DialInv => DialTypeOK
  BY DEF DialInv
<1> QED
  BY <1>1, DialInvariance, PTL

\* No hop below a dial in progress or a running session is closed by the program: where
\* the chain has a gap, a host made it.
THEOREM ChainStaysWhole == DialSpec => []ChainIntact
<1>1. DialInv => ChainIntact
  BY DEF DialInv
<1> QED
  BY <1>1, DialInvariance, PTL

\* Whichever step of a chain fails, its last client is closed, and after the session
\* the client of the target is; what may be left are hops below it.
THEOREM EndOfChainClosed == DialSpec => []EndIsClosed
<1>1. DialInv => EndIsClosed
  <2> SUFFICES ASSUME DialInv PROVE EndIsClosed
    OBVIOUS
  <2>1. ASSUME phase \in {"failed", "ended"} PROVE alive \subseteq (1..hops) \ {top}
    BY <2>1 DEF DialInv, DialTypeOK, Progress, Dialled
  <2> QED
    BY <2>1 DEF EndIsClosed
<1> QED
  BY <1>1, DialInvariance, PTL

(***************************************************************************)
(* The dial and its questions together.                                    *)
(***************************************************************************)

\* A step of the composition is a step of the registry, or leaves it alone.
LEMMA RegistrySteps == [SshNext]_sshVars => [Next]_vars
<1> USE DialedAssumption
<1>1. GivesUp \/ TargetAccepts \/ DialBreaks => Next
  BY DEF GivesUp, TargetAccepts, DialBreaks, Next
<1>2. TargetAsks => Next
  BY DEF TargetAsks, Next
<1>3. ChainStep \/ RoundFails => UNCHANGED vars
  BY DEF ChainStep, RoundFails
<1>4. Elsewhere => Next
  BY DEF Elsewhere, Next
<1> QED
  BY <1>1, <1>2, <1>3, <1>4 DEF SshNext, sshVars

\* A step of the composition is a step of the dial, or leaves it alone.
LEMMA ChainSteps == [SshNext]_sshVars => [DialNext]_dialVars
<1>1. GivesUp \/ TargetAccepts \/ DialBreaks \/ RoundFails => DialNext
  BY DEF GivesUp, TargetAccepts, DialBreaks, RoundFails, DialNext
<1>2. ChainStep => DialNext
  BY DEF ChainStep, DialNext
<1>3. TargetAsks \/ Elsewhere => UNCHANGED dialVars
  BY DEF TargetAsks, Elsewhere
<1> QED
  BY <1>1, <1>2, <1>3 DEF SshNext, sshVars

\* Whatever was proved of the registry by itself holds when the questions come from the
\* target of a dial over jump hosts.
THEOREM PromptsOfADial == SshSpec => Spec
<1>1. SshInit => Init
  BY DEF SshInit
<1> QED
  BY <1>1, RegistrySteps, PTL DEF SshSpec, Spec

\* Whatever was proved of the dial by itself holds when its target asks questions.
THEOREM DialWithPrompts == SshSpec => DialSpec
<1>1. SshInit => DialInit
  BY DEF SshInit
<1> QED
  BY <1>1, ChainSteps, PTL DEF SshSpec, DialSpec

\* A dial that returned a client is over for the registry too, and was answered.
AnsweredInv ==
    phase \in {"connected", "ended"} =>
        /\ callback[Dialed] = "over"
        /\ \A n \in 1..round[Dialed] : consumed[<<Dialed, n>>] # None

\* The dial succeeds only when all its rounds were answered, and asks none later.
LEMMA AnsweredStep ==
    ASSUME IInv, AnsweredInv, DialInv, [SshNext]_sshVars
    PROVE  AnsweredInv'
<1> USE DialedAssumption
<1>1. /\ callback \in [Sessions -> {"dialing", "waiting", "answered", "expired", "over"}]
      /\ round \in [Sessions -> 0..MaxRounds]
      /\ consumed \in [Challenges -> Answers \cup {None}]
      /\ MaxRounds \in Nat
  BY RoundsAssumption DEF IInv, TypeOK
<1>2. CASE GivesUp \/ DialBreaks \/ RoundFails
  <2>1. phase' = "failed"
    BY <1>2 DEF GivesUp, DialBreaks, RoundFails, StartFails, DialFails
  <2> QED
    BY <2>1 DEF AnsweredInv
<1>3. CASE ChainStep
  <2>1. UNCHANGED <<callback, round, consumed>>
    BY <1>3 DEF ChainStep, vars
  <2>2. phase' \in {"connected", "ended"} => phase \in {"connected", "ended"}
    BY <1>3 DEF ChainStep, StartSession, TestConnection, Resolve, DialHop, CloseClient,
                HostDrops, ChannelBreaks
  <2> QED
    BY <2>1, <2>2 DEF AnsweredInv
<1>4. CASE TargetAsks
  BY <1>4 DEF TargetAsks, dialVars, AnsweredInv
<1>5. CASE TargetAccepts
  <2>1. /\ callback[Dialed] = "dialing" /\ callback'[Dialed] = "over"
        /\ UNCHANGED <<round, consumed>>
    BY <1>1, <1>5 DEF TargetAccepts, DialEnds
  <2>2. ASSUME NEW n \in 1..round[Dialed] PROVE consumed[<<Dialed, n>>] # None
    <3>1. <<Dialed, n>> \in Asked
      BY <1>1, <2>2 DEF Asked, Challenges, Rounds
    <3>2. <<Dialed, n>> \in Used
      BY <2>1, <3>1 DEF IInv, EarlierRoundsUsed
    <3> QED
      BY <3>2 DEF Used
  <2> QED
    BY <2>1, <2>2 DEF AnsweredInv
<1>6. CASE Elsewhere
  <2>1. UNCHANGED phase
    BY <1>6 DEF Elsewhere, dialVars
  <2> SUFFICES ASSUME phase \in {"connected", "ended"}
               PROVE  /\ callback'[Dialed] = "over"
                      /\ \A n \in 1..round'[Dialed] : consumed'[<<Dialed, n>>] # None
    BY <2>1 DEF AnsweredInv
  <2>2. /\ callback[Dialed] = "over"
        /\ \A n \in 1..round[Dialed] : consumed[<<Dialed, n>>] # None
    BY DEF AnsweredInv
  <2>3. ASSUME NEW s \in Sessions, ReceiveResponse(s)
        PROVE  /\ callback'[Dialed] = "over"
               /\ \A n \in 1..round'[Dialed] : consumed'[<<Dialed, n>>] # None
    <3>1. s # Dialed /\ UNCHANGED round
      BY <2>2, <2>3 DEF ReceiveResponse
    <3>2. \A n \in 1..round[Dialed] : consumed'[<<Dialed, n>>] = consumed[<<Dialed, n>>]
      BY <1>1, <2>3, <3>1 DEF ReceiveResponse, Challenges, Rounds
    <3>3. callback'[Dialed] = callback[Dialed]
      BY <1>1, <2>3, <3>1 DEF ReceiveResponse
    <3> QED
      BY <2>2, <3>1, <3>2, <3>3
  <2>4. ASSUME NEW s \in Sessions, TimeOut(s) \/ Return(s) \/ (s # Dialed /\ DialEnds(s))
        PROVE  callback'[Dialed] = "over" /\ UNCHANGED <<round, consumed>>
    BY <1>1, <2>2, <2>4 DEF TimeOut, Return, DialEnds
  <2>5. ASSUME NEW s \in Sessions, s # Dialed, Ask(s)
        PROVE  /\ callback'[Dialed] = "over" /\ round'[Dialed] = round[Dialed]
               /\ UNCHANGED consumed
    BY <1>1, <2>2, <2>5 DEF Ask
  <2>6. ASSUME \/ \E c \in Challenges : PromptArrives(c)
               \/ Type \/ Submit \/ Cancel
               \/ \E a \in Answers : LookUp(a)
               \/ \E c \in Challenges, a \in Answers : Send(<<c, a>>)
        PROVE  UNCHANGED <<callback, round, consumed>>
    BY <2>6 DEF PromptArrives, Type, Submit, Cancel, LookUp, Send, registryVars
  <2>7. ASSUME callback'[Dialed] = "over", round'[Dialed] = round[Dialed], UNCHANGED consumed
        PROVE  /\ callback'[Dialed] = "over"
               /\ \A n \in 1..round'[Dialed] : consumed'[<<Dialed, n>>] # None
    BY <2>2, <2>7
  <2>8. ASSUME NEW s \in Sessions, Callback(s)
        PROVE  /\ callback'[Dialed] = "over"
               /\ \A n \in 1..round'[Dialed] : consumed'[<<Dialed, n>>] # None
    <3>1. CASE ReceiveResponse(s)
      BY <3>1, <2>3
    <3>2. CASE TimeOut(s) \/ Return(s)
      <4>1. callback'[Dialed] = "over" /\ UNCHANGED <<round, consumed>>
        BY <1>1, <2>2, <3>2 DEF TimeOut, Return
      <4>2. round'[Dialed] = round[Dialed]
        BY <4>1
      <4> QED
        BY <4>1, <4>2, <2>7
    <3> QED
      BY <2>8, <3>1, <3>2 DEF Callback
  <2>9. CASE \E s \in Sessions \ {Dialed} : Ask(s) \/ DialEnds(s)
    BY <2>4, <2>5, <2>7, <2>9
  <2>10. ASSUME UNCHANGED <<callback, round, consumed>>
         PROVE  /\ callback'[Dialed] = "over"
                /\ \A n \in 1..round'[Dialed] : consumed'[<<Dialed, n>>] # None
    BY <2>2, <2>10
  <2> QED
    BY <1>6, <2>6, <2>8, <2>9, <2>10 DEF Elsewhere
<1>7. CASE UNCHANGED sshVars
  BY <1>7 DEF sshVars, vars, dialVars, AnsweredInv
<1> QED
  BY <1>2, <1>3, <1>4, <1>5, <1>6, <1>7 DEF SshNext

\* Every question the target asked was answered before the dial returned a client: a
\* timeout of the callback, at any round and behind any number of hops, ends the dial.
THEOREM ConnectedAnswered == SshSpec => []ConnectedIsAnswered
<1>1. SshInit => AnsweredInv
  BY DEF SshInit, DialInit, AnsweredInv
<1>2. IInv /\ AnsweredInv /\ DialInv /\ [SshNext]_sshVars => AnsweredInv'
  BY AnsweredStep
<1>3. AnsweredInv => ConnectedIsAnswered
  BY DEF AnsweredInv, ConnectedIsAnswered
<1> QED
  BY <1>1, <1>2, <1>3, PromptsOfADial, DialWithPrompts, Invariance, DialInvariance, PTL
  DEF SshSpec
=============================================================================
