\* Two rotations of the tokens' keys under one client, or of the signatures' keys under
\* requests of both kinds.  At MaxTime a client's tokens are dead.
CONSTANTS
  Deployments <- TokensOrSignatures
  Clients = {c1}
  LastKey = 2
  MaxTime = 5
  Life <- MCLife
SPECIFICATION FairSpec
INVARIANTS Inv TokenLives
PROPERTIES SignaturesSurvive
CHECK_DEADLOCK FALSE
