CONSTANTS
  Sessions = {s1, s2}
  Dialed = s1
  MaxRounds = 2
  MaxHops = 3
  None = None
SPECIFICATION FairSshSpec
INVARIANTS ChainIntact EndIsClosed ConnectedIsAnswered AnswerMatchesPrompt
PROPERTIES ImplementsExchange ChallengeEnds AcceptedIsUsed
CHECK_DEADLOCK FALSE
