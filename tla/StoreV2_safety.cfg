\* One writer process with two concurrent handlers.
CONSTANTS
  h1 = h1
  h2 = h2
  writer = writer
  importer = importer
  Handlers = {h1, h2}
  Procs = {writer}
  Writer = writer
  ProcOf <- OneProc
  Bodies <- MCBodies
  Batches <- MCBatches
  BatchOf <- MCBatchOf
  RecordsOf <- MCRecordsOf
  ScopeOf <- MCScopeOf
  PrivacyBodies <- MCPrivacyBodies
  RequestOf <- MCRequestOf
  PrivacyScopeOf <- MCPrivacyScopeOf
  ActionOf <- MCActionOf
  Times = {1, 2}
  NoKey = NoKey
  NoBody = NoBody
  Nobody = Nobody
SPECIFICATION Spec
INVARIANTS OneBodyPerBatch OneBodyPerRecord AckedIsStored CompletedIsStored ErasedStaysErased
PROPERTIES NoWriteAfterSuppression KeepsIngestPromise KeepsErasurePromise
