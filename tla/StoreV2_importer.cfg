\* The writer and the legacy importer: two processes, each with a mutex of its own.
CONSTANTS
  h1 = h1
  h2 = h2
  writer = writer
  importer = importer
  Handlers = {h1, h2}
  Procs = {writer, importer}
  Writer = writer
  ProcOf <- TwoProcs
  Bodies <- MCBodies
  Batches <- MCBatches
  BatchOf <- MCBatchOf
  RecordsOf <- MCRecordsOf
  ScopeOf <- MCScopeOf
  PrivacyBodies <- MCPrivacyBodies
  RequestOf <- MCRequestOf
  PrivacyScopeOf <- MCPrivacyScopeOf
  ActionOf <- MCActionOf
  Times = {1, 2}
  NoKey = NoKey
  NoBody = NoBody
  Nobody = Nobody
SPECIFICATION Spec
PROPERTY NoWriteAfterSuppression
