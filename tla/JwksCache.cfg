\* One rotation, a removed key, two verifiers; the issuer's clock runs ahead.
CONSTANTS
  Verifiers = {v1, v2}
  LastKey = 1
  CacheTTL = 1
  MaxStale = 2
  Timeout = 1
  Lifetime = 1
  Skew = 1
  IssuerOffset = 1
  MaxTime = 4
  Nobody = Nobody
SPECIFICATION FairSpec
INVARIANT Inv
PROPERTIES RemovedKeyFades LiveTokenIsKnown FetchesAreSerial
