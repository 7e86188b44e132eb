\* Liveness: two handlers, two bodies of different batches that share a record,
\* one opt-out.
CONSTANTS
  h1 = h1
  h2 = h2
  writer = writer
  importer = importer
  Handlers = {h1, h2}
  Procs = {writer}
  Writer = writer
  ProcOf <- OneProc
  Bodies = {"first", "overlap"}
  Batches <- MCBatches
  BatchOf <- MCBatchOf
  RecordsOf <- MCRecordsOf
  ScopeOf <- MCScopeOf
  PrivacyBodies = {"mute"}
  RequestOf <- MCRequestOf
  PrivacyScopeOf <- MCPrivacyScopeOf
  ActionOf <- MCActionOf
  Times = {1}
  NoKey = NoKey
  NoBody = NoBody
  Nobody = Nobody
SPECIFICATION FairSpec
PROPERTY ReservationResolved
