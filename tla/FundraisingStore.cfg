\* Two bodies under one batch id, two handlers, one reservation and any other
\* statements that outlive their callers.  The clock may be set, by less
\* than a caller waits.
CONSTANTS
  Handlers = {h1, h2}
  Bodies = {b1, b2}
  Batches = {1}
  BatchOf <- MCBatchOf
  MinWait = 2
  MaxBack = 1
  MaxTime = 6
  MaxLate = 1
  NoBody = NoBody
  Nobody = Nobody
SPECIFICATION FairSpec
INVARIANTS Inv OneBodyPerBatch AckedIsStored
PROPERTIES ReservationResolved
