\* Two handlers, two installations, a legacy and a scoped request under one id.
CONSTANTS
  b1 = b1  b2 = b2  p1 = p1  p2 = p2
  Handlers = {h1, h2}
  Bodies = {b1, b2}
  LegacyBodies = {p1}
  ScopedBodies = {p2}
  PartsOf <- MCPartsOf
  InstallationOf <- MCInstallationOf
  RequestOf <- MCRequestOf
  NoBody = NoBody
  Nobody = Nobody
SPECIFICATION FairSpec
INVARIANTS Inv AckedIsStored
PROPERTIES NoWriteAfterSuppression HalfBatchResolved
