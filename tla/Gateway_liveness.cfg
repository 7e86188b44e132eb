\* A batch, a donation and a foreign batch with one handler: every client is told something.
CONSTANTS
  first = first  reuse = reuse  clash = clash  alien = alien  donation = donation
  outcome = outcome  ask = ask  ask1 = ask1  event = event
  Requests = {first, reuse, clash, alien, donation, outcome, ask, ask1, event}
  Crowds <- Repeating
  Slots = {s1}
  MaxTime = 2
  Ahead = 0
  MaxSkew = 1
  KindOf <- MCKindOf
  IdOf <- MCIdOf
  StampOf <- MCStampOf
  ExpiryOf <- MCExpiryOf
  FaultsOf <- MCFaultsOf
  MutesOf <- MCMutesOf
  ClashesOf <- MCClashesOf
  Offset <- MCOffset
  Past <- MCPast
  NoRequest = NoRequest
  Names = {"a", "b"}
  MaxDepth = 2
  MaxTokens = 7
SPECIFICATION FairSpec
INVARIANTS WalkIsExact
PROPERTIES EveryoneIsTold
