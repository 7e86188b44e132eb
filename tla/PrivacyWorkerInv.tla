-------------------------- MODULE PrivacyWorkerInv ---------------------------
(***************************************************************************)
(* The inductive invariants of PrivacyWorker: PInv for any number of       *)
(* workers, what a worker knows of the tables behind it; SInv for a single *)
(* one, whose request nobody else moves.                                   *)
(***************************************************************************)
EXTENDS PrivacyWorker

Gone(r, t) == held[t] \cap ScopeOf[r] = {}

\* The tables before the k-th of a request's deletion hold nothing of its scope.
GoneBefore(r, k) == \A i \in DOMAIN TablesOf[r] : i < k => Gone(r, TablesOf[r][i])

Erased(r) == \A t \in TablesTouched(r) : Gone(r, t)

WorkerKnows(w) ==
  LET r == job[w].req
  IN  /\ wpc[w] \in {"idle", "claim", "mark"} => table[w] = 1
      /\ wpc[w] \in Busy \ {"claim"} => job[w] \in Job /\ Recorded(r)
      /\ wpc[w] \in DeletionSteps => r \notin OptOuts
      /\ wpc[w] \in DeletionSteps => table[w] \in DOMAIN TablesOf[r] /\ GoneBefore(r, table[w])
      /\ wpc[w] = "finish" => Gone(r, Table(w))
      /\ wpc[w] = "complete" => r \in OptOuts \/ Erased(r)

WorkersKnow == \A w \in Workers : WorkerKnows(w)

\* Only recorded requests have progress.
ProgressIsRecorded ==
  \A r \in Requests, t \in Tables : progress[r][t].status # "absent" => Recorded(r)

PInv ==
  /\ TypeOK /\ WorkersKnow /\ ProgressIsRecorded
  /\ CompletedIsErased /\ FinishedTableIsErased

-----------------------------------------------------------------------------
(* A single worker                                                         *)

SingleWorker == \A v, w \in Workers : v = w

\* The steps of a worker that has marked its claim.
Working == {"complete", "retry"} \cup DeletionSteps

AtWork(r) == \E w \in Workers : wpc[w] \in Working /\ job[w].req = r

\* The row of the worker's request is as the worker left it, and a worker that
\* gives up on a try has met a fault in it.
OwnsRow(w) ==
  LET r == job[w].req
  IN  /\ wpc[w] \in {"idle", "claim"} => job[w] = NoJob
      /\ wpc[w] = "mark" =>
           /\ row[r].status \in {"pending", "retry", "processing"}
           /\ row[r].attempts = job[w].attempts
           /\ tried[w] = job[w].attempts
           /\ job[w].attempts <= met[r]
      /\ wpc[w] \in Working => row[r] = State("processing", job[w].attempts)
      /\ wpc[w] \in {"requeue", "retry"} => job[w].attempts <= met[r]
      /\ wpc[w] \in {"start", "mutate", "finish", "requeue"} =>
           Progress(w).status # "completed"

\* What was listed is still what the rows of the requests to come say.
ListIsFresh(w) ==
  \A j \in listed[w] :
    wpc[w] # "idle" /\ j.req # job[w].req => j.attempts = row[j.req].attempts

\* A try is paid for with a fault under its request, except the one that is going on and the one
\* that succeeded.
TriesArePaid ==
  \A r \in Requests :
    /\ row[r].status = "absent" => row[r].attempts = 0
    /\ ~AtWork(r) /\ row[r].status # "completed" => row[r].attempts <= met[r]

SInv ==
  /\ PInv
  /\ \A w \in Workers : OwnsRow(w) /\ ListIsFresh(w)
  /\ TriesArePaid /\ AttemptsCountFaults
=============================================================================
