\* Reservations of two bodies land after their handlers gave up.
CONSTANTS
  Handlers = {h1, h2}
  Bodies = {b1, b2}
  Batches = {1}
  BatchOf <- MCBatchOf
  MinWait = 2
  MaxBack = 1
  MaxTime = 8
  MaxLate = 2
  NoBody = NoBody
  Nobody = Nobody
SPECIFICATION Spec
INVARIANTS OneBodyPerBatch
