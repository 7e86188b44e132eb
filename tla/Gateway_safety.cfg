\* Two requests in flight: of batches with one id or one record, an opt-out or a foreign
\* scope among them, and of V1 events, their deletion and an outcome whose signature ages.
CONSTANTS
  first = first  reuse = reuse  clash = clash  alien = alien  donation = donation
  outcome = outcome  ask = ask  ask1 = ask1  event = event
  Requests = {first, reuse, clash, alien, donation, outcome, ask, ask1, event}
  Crowds <- Meeting
  Slots = {s1, s2}
  MaxTime = 2
  Ahead = 0
  MaxSkew = 1
  KindOf <- MCKindOf
  IdOf <- MCIdOf
  StampOf <- MCStampOf
  ExpiryOf <- MCExpiryOf
  FaultsOf <- MCFaultsOf
  MutesOf <- MCMutesOf
  ClashesOf <- MCClashesOf
  Offset <- MCOffset
  Past <- MCPast
  NoRequest = NoRequest
SPECIFICATION Spec
INVARIANTS Inv AcceptedIsKept RefusalsAreTrue
SYMMETRY SlotSymmetry
