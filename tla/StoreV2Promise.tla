--------------------------- MODULE StoreV2Promise ----------------------------
(***************************************************************************)
(* StoreV2 implements IngestPromise: the refinement mapping.               *)
(***************************************************************************)
EXTENDS StoreV2

ClaimMap == [n \in Batches |-> IF Present(ledger[n]) THEN ledger[n].body ELSE NoBody]
DoneMap == {n \in Batches : ledger[n].status = "completed"}
MutedMap == {b \in Bodies : Suppressed(b)}

Promise == INSTANCE IngestPromise
             WITH claim <- ClaimMap, held <- stored, done <- DoneMap,
                  muted <- MutedMap, Unclaimed <- NoBody

\* Every behaviour of the store, seen through its FINAL ledger, its stream
\* tables and its suppressions, is one the promise allows.
KeepsIngestPromise == Promise!Spec
=============================================================================
