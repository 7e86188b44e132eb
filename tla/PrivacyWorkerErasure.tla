------------------------- MODULE PrivacyWorkerErasure -------------------------
(***************************************************************************)
(* PrivacyWorker implements ErasurePromise: the refinement mapping.        *)
(***************************************************************************)
EXTENDS PrivacyWorker

RecordedMap == {r \in Requests : Recorded(r)}
ReportedMap == {r \in Requests \ OptOuts : row[r].status = "completed"}

Erasure == INSTANCE ErasurePromise WITH recorded <- RecordedMap, reported <- ReportedMap

\* Whatever is listed twice, retried, cut short or claimed again, the worker's
\* statements are seen from outside as a deletion that clears its tables in order and
\* is reported once all of them are clear, for good (worker.go:54-91,
\* store_privacy.go:175-228).
KeepsErasurePromise == Erasure!Spec
=============================================================================
