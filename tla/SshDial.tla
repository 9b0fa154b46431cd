-------------------------------- MODULE SshDial --------------------------------
(***************************************************************************)
(* The dial of a session together with the questions its target asks: the  *)
(* composition of Dialer and MfaRegistry for one session, Dialed, while     *)
(* other sessions are dialled as well.                                      *)
(*                                                                         *)
(* The callback is an authentication method of the target only (Dial,       *)
(* DialWithJump); the library calls it inside NewClientConn, in the         *)
(* goroutine of the dial.  So a question comes over a whole chain of hops,  *)
(* the dial can neither fail nor succeed until the callback has returned,   *)
(* not even when a hop is lost meanwhile, and an error that the callback    *)
(* returns makes it fail.                                                   *)
(***************************************************************************)
EXTENDS MfaRegistry, Dialer

CONSTANT Dialed         \* the session whose clients Dialer follows

ASSUME DialedAssumption == Dialed \in Sessions

sshVars == <<vars, dialVars>>

SshInit == Init /\ DialInit

-----------------------------------------------------------------------------
(* The dial of Dialed                                                      *)

\* StartSession gives up before it dials.
GivesUp == StartFails /\ DialEnds(Dialed)

\* What goes on without the target: before its authentication, after it, in a dial of
\* TestConnection, which asks nothing, and at the hosts.
ChainStep ==
    /\ \/ \E n \in 0..MaxHops : StartSession(n)
       \/ TestConnection
       \/ Resolve
       \/ DialHop
       \/ CloseClient
       \/ \E i \in Clients : HostDrops(i) \/ ChannelBreaks(i)
    /\ UNCHANGED vars

TargetAsks ==
    /\ phase = "dial" /\ top = hops
    /\ top > 0 => top \in alive
    /\ Ask(Dialed)
    /\ UNCHANGED dialVars

TargetAccepts == DialTarget /\ DialEnds(Dialed)

\* Anything but the callback makes the dial fail, while the callback does not run.
DialBreaks == DialFails /\ DialEnds(Dialed)

\* The callback returned an error.
RoundFails ==
    /\ callback[Dialed] = "over"
    /\ DialFails
    /\ UNCHANGED vars

-----------------------------------------------------------------------------
\* The other sessions, the frontend and the handlers of its answers.
Elsewhere ==
    /\ \/ \E s \in Sessions : Callback(s)
       \/ \E s \in Sessions \ {Dialed} : Ask(s) \/ DialEnds(s)
       \/ \E c \in Challenges : PromptArrives(c)
       \/ Type \/ Submit \/ Cancel
       \/ \E a \in Answers : LookUp(a)
       \/ \E c \in Challenges, a \in Answers : Send(<<c, a>>)
    /\ UNCHANGED dialVars

SshNext ==
    GivesUp \/ ChainStep \/ TargetAsks \/ TargetAccepts \/ DialBreaks \/ RoundFails \/ Elsewhere

SshSpec == SshInit /\ [][SshNext]_sshVars

\* As in MfaRegistry; and the goroutine of the dial goes on when the callback returned an
\* error.  No host need answer, so a dial may take for ever.
FairSshSpec == SshSpec /\ Fairness /\ WF_sshVars(RoundFails)

-----------------------------------------------------------------------------
(* Properties                                                              *)

\* Nobody is connected past a question: when the dial returns a client, and ever after,
\* each round the target asked had its answer returned to it.  A round that timed out,
\* even with the answer in its channel, ends the dial.
ConnectedIsAnswered ==
    phase \in {"connected", "ended"} =>
        \A n \in 1..round[Dialed] : consumed[<<Dialed, n>>] # None

\* A question never leaves the dial hanging: the answer comes back and the dial goes on,
\* or it fails with the client at its end closed; whatever becomes of the hops, of the
\* prompt and of the answer meanwhile.
ChallengeEnds ==
    /\ \A s \in Sessions : callback[s] = "waiting" ~> callback[s] \in {"dialing", "over"}
    /\ callback[Dialed] = "waiting" ~>
          \/ \E n \in Rounds : n = round[Dialed] /\ consumed[<<Dialed, n>>] # None
          \/ phase = "failed" /\ top \notin alive
=============================================================================
