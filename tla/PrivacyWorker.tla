---------------------------- MODULE PrivacyWorker -----------------------------
(***************************************************************************)
(* The privacy worker: internal/privacy/worker.go and the claims, leases,  *)
(* retries and per-table progress that internal/clickhouse/store_privacy.go *)
(* keeps for it in ClickHouse.                                             *)
(*                                                                         *)
(* Each action is one round trip.  A statement may fail without effect,    *)
(* fail after having been applied, or be cut short by a crash of the       *)
(* worker; each such fault is taken from a budget, so that failures end.   *)
(*                                                                         *)
(* Time.  Of available_at and lease_until only "has it passed?" is ever    *)
(* asked: due says so of the surviving row.  The clocks of ClickHouse and  *)
(* of the workers agree.                                                   *)
(*                                                                         *)
(* Data.  An item is the rows of one subject that live and die together.   *)
(* The store adds no item of a suppressed scope (StoreV2).                 *)
(***************************************************************************)
EXTENDS Integers, FiniteSets, Sequences

CONSTANTS
  Workers,      \* processes of cmd/privacy-worker; the docs ask for one
  Requests,     \* privacy requests that CreatePrivacyRequest may record
  RequestedAt,  \* [Requests -> Nat]
  OptOuts,      \* the requests whose action is opt_out; the others delete
  Items,
  ScopeOf,      \* [Requests -> SUBSET Items]
  Tables,
  TablesOf,     \* [Requests -> Seq(Tables)], in the order of the code
  Limit,        \* of PendingPrivacyRequests
  MaxAttempts,  \* PRIVACY_WORKER_MAX_ATTEMPTS
  MaxFaults,    \* bound on failed statements and crashes
  MaxClaims,    \* bound on the claims of a request; with one worker it is never
                \* met when it exceeds MaxFaults
  NoRequest     \* the job of a worker that has none

ASSUME WorkerAssumption ==
  /\ RequestedAt \in [Requests -> Nat]
  /\ OptOuts \subseteq Requests
  /\ ScopeOf \in [Requests -> SUBSET Items]
  /\ TablesOf \in [Requests -> Seq(Tables)]
  /\ \A r \in Requests : TablesOf[r] # <<>>
  /\ Limit \in Nat \ {0} /\ MaxAttempts \in Nat \ {0}
  /\ MaxFaults \in Nat /\ MaxClaims \in Nat
  /\ NoRequest \notin Requests

VARIABLES
  row,       \* privacy_suppressions_v2 as FINAL shows it, by request
  due,       \* available_at or lease_until of that row has passed
  progress,  \* privacy_deletion_progress_v2 as FINAL shows it
  held,      \* [Tables -> SUBSET Items], the telemetry tables
  wpc,       \* next statement of each worker
  listed,    \* jobs a worker got from PendingPrivacyRequests and has yet to do
  job,       \* the request a worker works on, with its attempts
  table,     \* index into TablesOf of the job
  tried,     \* the attempts a worker just read from a row
  faults,    \* how many faults there have been
  met        \* [Requests -> Nat], those of them that met a job of the request:
             \* a history variable, which no guard reads

rows == <<row, due>>
locals == <<wpc, listed, job, table, tried>>
tally == <<faults, met>>
vars == <<row, due, progress, held, wpc, listed, job, table, tried, faults, met>>

-----------------------------------------------------------------------------
(* Rows and their versions                                                 *)

Phase(status) ==
  CASE status \in {"absent", "pending"} -> 0
    [] status = "processing" -> 1
    [] status \in {"retry", "failed"} -> 2
    [] status = "completed" -> 3

\* privacyStatusVersion, in milliseconds after the request's ingested_at.
Version(status, attempts) == 4 * attempts + Phase(status)

State(status, attempts) == [status |-> status, attempts |-> attempts]
Absent == State("absent", 0)

\* FINAL of ReplacingMergeTree(updated_at): the highest version, and among equal
\* ones the last inserted.
Wins(new, old) == Version(new.status, new.attempts) >= Version(old.status, old.attempts)
Later(new, old) == IF Wins(new, old) THEN new ELSE old

Settled == {"completed", "failed"}
Recorded(r) == row[r].status # "absent"

\* Fault: a lease that ran out is nobody's business.
ClaimableUnlessProcessing(r) == row[r].status \in {"pending", "retry"} /\ due[r]

Claimable(r) == row[r].status \in {"pending", "retry", "processing"} /\ due[r]

NoJob == [req |-> NoRequest, attempts |-> 0]

-----------------------------------------------------------------------------
(* The steps of a worker                                                   *)

DeletionSteps == {"progress", "start", "mutate", "finish", "requeue"}
Busy == {"claim", "mark", "complete", "retry"} \cup DeletionSteps

\* A fault meets the request that the worker has in hand, if it has one.
Fault(w) ==
  /\ faults < MaxFaults
  /\ faults' = faults + 1
  /\ met' = [r \in Requests |-> IF r = job[w].req THEN met[r] + 1 ELSE met[r]]

NoFault == UNCHANGED tally

At(w, step) == wpc[w] = step
Goto(w, step) ==
  /\ wpc' = [wpc EXCEPT ![w] = step]
  /\ UNCHANGED <<listed, job, table>>

\* The loop of RunOnce goes on to the next listed request, or ends.
NextJob(w) ==
  LET rest == {j \in listed[w] : j.req # job[w].req}
  IN  /\ listed' = [listed EXCEPT ![w] = rest]
      /\ job' = [job EXCEPT ![w] = NoJob]
      /\ table' = [table EXCEPT ![w] = 1]
      /\ tried' = [tried EXCEPT ![w] = 0]
      /\ wpc' = [wpc EXCEPT ![w] = IF rest = {} THEN "idle" ELSE "claim"]

\* insertPrivacyStatus: available_at of a processing or retry row lies ahead.
PutStatus(r, new) ==
  /\ row' = [row EXCEPT ![r] = Later(new, @)]
  /\ due' = [due EXCEPT ![r] = IF Wins(new, row[r]) THEN FALSE ELSE @]

\* insertDeletionProgress for the table the worker is at.
Table(w) == TablesOf[job[w].req][table[w]]
Progress(w) == progress[job[w].req][Table(w)]
PutProgress(w, new) ==
  progress' = [progress EXCEPT ![job[w].req][Table(w)] = Later(new, @)]

\* An INSERT with a given effect that succeeds, fails, or fails after all.
Insert(w, effect, ok, failed, nothing) ==
  \/ effect /\ ok /\ NoFault
  \/ effect /\ failed /\ Fault(w)
  \/ nothing /\ failed /\ Fault(w)

\* deleteTelemetryTable returned nil: on with the loop over the tables.
NextTable(w) ==
  /\ IF table[w] < Len(TablesOf[job[w].req])
     THEN /\ table' = [table EXCEPT ![w] = @ + 1]
          /\ wpc' = [wpc EXCEPT ![w] = "progress"]
     ELSE /\ UNCHANGED table
          /\ wpc' = [wpc EXCEPT ![w] = "complete"]
  /\ UNCHANGED <<listed, job>>

-----------------------------------------------------------------------------
(* RunOnce                                                                 *)

\* PendingPrivacyRequests: the first Limit claimable rows by requested_at.
PendingPrivacyRequests(w) ==
  LET ready == {r \in Requests : Claimable(r)}
      first == {r \in ready :
                  Cardinality({q \in ready : RequestedAt[q] < RequestedAt[r]}) < Limit}
  IN  /\ At(w, "idle")
      /\ listed' = [listed EXCEPT ![w] = {[req |-> r, attempts |-> row[r].attempts] : r \in first}]
      /\ wpc' = [wpc EXCEPT ![w] = IF first = {} THEN "idle" ELSE "claim"]
      /\ UNCHANGED <<rows, progress, held, job, table, tried, tally>>

\* ClaimPrivacyRequest reads the row again, under a mutex of this process only.
ReadClaim(w) ==
  /\ At(w, "claim")
  /\ \E j \in listed[w] :
       /\ \A k \in listed[w] : RequestedAt[j.req] <= RequestedAt[k.req]
       /\ \/ /\ Claimable(j.req) /\ row[j.req].attempts < MaxClaims /\ NoFault
             /\ job' = [job EXCEPT ![w] = j]
             /\ wpc' = [wpc EXCEPT ![w] = "mark"]
             /\ tried' = [tried EXCEPT ![w] = row[j.req].attempts]
             /\ UNCHANGED <<listed, table>>
          \/ /\ (~Claimable(j.req) /\ NoFault) \/ Fault(w)
             /\ listed' = [listed EXCEPT ![w] = @ \ {j}]
             /\ wpc' = [wpc EXCEPT ![w] = IF listed[w] = {j} THEN "idle" ELSE "claim"]
             /\ UNCHANGED <<job, table, tried>>
  /\ UNCHANGED <<rows, progress, held>>

\* It inserts the processing row with one attempt more than it read, while
\* RunOnce counts one attempt more than PendingPrivacyRequests listed.
MarkClaim(w) ==
  LET r == job[w].req
  IN  /\ At(w, "mark")
      /\ \/ /\ PutStatus(r, State("processing", tried[w] + 1)) /\ NoFault
            /\ job' = [job EXCEPT ![w].attempts = @ + 1]
            /\ wpc' = [wpc EXCEPT ![w] = IF r \in OptOuts THEN "complete" ELSE "progress"]
            /\ UNCHANGED <<listed, table, tried>>
         \/ /\ PutStatus(r, State("processing", tried[w] + 1)) \/ UNCHANGED rows
            /\ Fault(w) /\ NextJob(w)
      /\ UNCHANGED <<progress, held>>

\* CompletePrivacyRequest; its error is only logged.
CompletePrivacyRequest(w) ==
  /\ At(w, "complete")
  /\ Insert(w, PutStatus(job[w].req, State("completed", job[w].attempts)),
            NextJob(w), NextJob(w), UNCHANGED rows)
  /\ UNCHANGED <<progress, held>>

\* Fault: the limit is one attempt too low.
RetryOnceLess(w) ==
  LET n == job[w].attempts
      status == IF n + 1 >= MaxAttempts THEN "failed" ELSE "retry"
  IN  /\ At(w, "retry")
      /\ Insert(w, PutStatus(job[w].req, State(status, n)),
                NextJob(w), NextJob(w), UNCHANGED rows)
      /\ UNCHANGED <<progress, held>>

\* RetryPrivacyRequest, with the attempts RunOnce counted.
RetryPrivacyRequest(w) ==
  LET n == job[w].attempts
      status == IF n >= MaxAttempts THEN "failed" ELSE "retry"
  IN  /\ At(w, "retry")
      /\ Insert(w, PutStatus(job[w].req, State(status, n)),
                NextJob(w), NextJob(w), UNCHANGED rows)
      /\ UNCHANGED <<progress, held>>

-----------------------------------------------------------------------------
(* DeleteTelemetryRequest and deleteTelemetryTable                         *)

\* Fault: a table once begun counts as finished.
PassOverBegun(w) ==
  /\ At(w, "progress")
  /\ \/ Progress(w) # Absent /\ NextTable(w) /\ NoFault /\ UNCHANGED tried
     \/ /\ Progress(w) = Absent /\ Goto(w, "start") /\ NoFault
        /\ tried' = [tried EXCEPT ![w] = Progress(w).attempts]
     \/ Goto(w, "retry") /\ Fault(w) /\ UNCHANGED tried
  /\ UNCHANGED <<rows, progress, held>>

\* Fault: a finished table is not passed over.
PassOverNothing(w) ==
  /\ At(w, "progress")
  /\ \/ /\ Goto(w, "start") /\ NoFault
        /\ tried' = [tried EXCEPT ![w] = Progress(w).attempts]
     \/ Goto(w, "retry") /\ Fault(w) /\ UNCHANGED tried
  /\ UNCHANGED <<rows, progress, held>>

\* deletionProgress: a table that is completed is passed over.
DeletionProgress(w) ==
  /\ At(w, "progress")
  /\ \/ Progress(w).status = "completed" /\ NextTable(w) /\ NoFault /\ UNCHANGED tried
     \/ /\ Progress(w).status # "completed" /\ Goto(w, "start") /\ NoFault
        /\ tried' = [tried EXCEPT ![w] = Progress(w).attempts]
     \/ Goto(w, "retry") /\ Fault(w) /\ UNCHANGED tried
  /\ UNCHANGED <<rows, progress, held>>

StartTable(w) ==
  /\ At(w, "start")
  /\ Insert(w, PutProgress(w, State("processing", tried[w] + 1)),
            Goto(w, "mutate"), Goto(w, "retry"), UNCHANGED progress)
  /\ UNCHANGED <<rows, held, tried>>

\* ALTER TABLE ... DELETE with mutations_sync = 2.
Mutate(w) ==
  /\ At(w, "mutate")
  /\ Insert(w, held' = [held EXCEPT ![Table(w)] = @ \ ScopeOf[job[w].req]],
            Goto(w, "finish"), Goto(w, "requeue"), UNCHANGED held)
  /\ UNCHANGED <<rows, progress, tried>>

\* The outcome of this INSERT is ignored.
RequeueTable(w) ==
  /\ At(w, "requeue")
  /\ Insert(w, PutProgress(w, State("retry", tried[w] + 1)),
            Goto(w, "retry"), Goto(w, "retry"), UNCHANGED progress)
  /\ UNCHANGED <<rows, held, tried>>

FinishTable(w) ==
  /\ At(w, "finish")
  /\ Insert(w, PutProgress(w, State("completed", tried[w] + 1)),
            NextTable(w), Goto(w, "retry"), UNCHANGED progress)
  /\ UNCHANGED <<rows, held, tried>>

-----------------------------------------------------------------------------
(* The world around the worker                                             *)

Crash(w) ==
  /\ wpc[w] # "idle"
  /\ Fault(w)
  /\ wpc' = [wpc EXCEPT ![w] = "idle"]
  /\ listed' = [listed EXCEPT ![w] = {}]
  /\ job' = [job EXCEPT ![w] = NoJob]
  /\ table' = [table EXCEPT ![w] = 1]
  /\ tried' = [tried EXCEPT ![w] = 0]
  /\ UNCHANGED <<rows, progress, held>>

\* The privacy API records a request; it can be claimed at once.
CreateRequest(r) ==
  /\ ~Recorded(r)
  /\ row' = [row EXCEPT ![r] = State("pending", 0)]
  /\ due' = [due EXCEPT ![r] = TRUE]
  /\ UNCHANGED <<progress, held, locals, tally>>

\* The retry delay or the lease of a row runs out.
Elapse(r) ==
  /\ row[r].status \in {"retry", "processing"}
  /\ ~due[r]
  /\ due' = [due EXCEPT ![r] = TRUE]
  /\ UNCHANGED <<row, progress, held, locals, tally>>

\* The store adds rows, but none of a suppressed scope.
Ingest(t, i) ==
  /\ \A r \in Requests : Recorded(r) => i \notin ScopeOf[r]
  /\ held' = [held EXCEPT ![t] = @ \cup {i}]
  /\ UNCHANGED <<rows, progress, locals, tally>>

-----------------------------------------------------------------------------
Init ==
  /\ row = [r \in Requests |-> Absent]
  /\ due = [r \in Requests |-> FALSE]
  /\ progress = [r \in Requests |-> [t \in Tables |-> Absent]]
  /\ held = [t \in Tables |-> {}]
  /\ wpc = [w \in Workers |-> "idle"]
  /\ listed = [w \in Workers |-> {}]
  /\ job = [w \in Workers |-> NoJob]
  /\ table = [w \in Workers |-> 1]
  /\ tried = [w \in Workers |-> 0]
  /\ faults = 0
  /\ met = [r \in Requests |-> 0]

DeleteTelemetryRequest(w) ==
  \/ DeletionProgress(w) \/ StartTable(w) \/ Mutate(w)
  \/ RequeueTable(w) \/ FinishTable(w)

RunOnce(w) ==
  \/ PendingPrivacyRequests(w) \/ ReadClaim(w) \/ MarkClaim(w)
  \/ DeleteTelemetryRequest(w)
  \/ CompletePrivacyRequest(w) \/ RetryPrivacyRequest(w)

Next ==
  \/ \E w \in Workers : RunOnce(w) \/ Crash(w)
  \/ \E r \in Requests : CreateRequest(r) \/ Elapse(r)
  \/ \E t \in Tables, i \in Items : Ingest(t, i)

Spec == Init /\ [][Next]_vars

\* cmd/privacy-worker runs RunOnce again at every tick, and time passes.
Fairness ==
  /\ \A w \in Workers : WF_vars(RunOnce(w))
  /\ \A r \in Requests : WF_vars(Elapse(r))

FairSpec == Spec /\ Fairness

-----------------------------------------------------------------------------
(* Properties                                                              *)

Statuses == {"absent", "pending", "processing", "retry", "failed", "completed"}
RowState == [status : Statuses, attempts : Nat]
Job == [req : Requests, attempts : Nat]

\* The variables have their types.
TypeOK ==
  /\ row \in [Requests -> RowState]
  /\ due \in [Requests -> BOOLEAN]
  /\ progress \in [Requests -> [Tables -> RowState]]
  /\ held \in [Tables -> SUBSET Items]
  /\ wpc \in [Workers -> {"idle"} \cup Busy]
  /\ listed \in [Workers -> SUBSET Job]
  /\ job \in [Workers -> Job \cup {NoJob}]
  /\ table \in [Workers -> Nat \ {0}]
  /\ tried \in [Workers -> Nat]
  /\ faults \in 0..MaxFaults
  /\ met \in [Requests -> Nat]

Deletes(r) == r \notin OptOuts
TablesTouched(r) == {TablesOf[r][k] : k \in DOMAIN TablesOf[r]}

\* A deletion that reads completed has erased its scope in every table: the
\* person who asked is never told so while a row remains, whatever crashed,
\* failed, timed out or was claimed twice before (worker.go:54-91,
\* store_privacy.go:175-228).
CompletedIsErased ==
  \A r \in Requests :
    row[r].status = "completed" /\ Deletes(r) =>
      \A t \in TablesTouched(r) : held[t] \cap ScopeOf[r] = {}

\* A table marked finished holds nothing of the scope, so skipping it after a
\* crash loses nothing (store_privacy.go:198-200).
FinishedTableIsErased ==
  \A r \in Requests, t \in Tables :
    progress[r][t].status = "completed" => held[t] \cap ScopeOf[r] = {}

\* Attempts count faults and nothing else: with one worker a request is given up
\* only after MaxAttempts statements or processes failed while they worked on that
\* very request; what befell another request of the batch, an unreadable claim or a
\* slow mutation that outlives its lease costs it no attempt (worker.go:54-91,
\* store_privacy.go:106-171; docs/telemetry-v2.md:45).
AttemptsCountFaults ==
  \A r \in Requests :
    /\ row[r].attempts <= met[r] + 1
    /\ row[r].status = "failed" => met[r] >= MaxAttempts

\* The state of one worker's requests at all times: what is counted has happened.
Inv == TypeOK /\ AttemptsCountFaults

\* With one worker a settled request stays settled, and so does a finished
\* table: no late or repeated step reopens it (store_privacy.go:278-287).
SettledIsFinal ==
  [][/\ \A r \in Requests : row[r].status \in Settled => row'[r] = row[r]
     /\ \A r \in Requests, t \in Tables :
          progress[r][t].status = "completed" => progress'[r][t] = progress[r][t]]_vars

\* No request is forgotten: whatever failed or crashed on the way, every recorded
\* request ends completed or failed, behind any LIMIT and any number of older
\* requests that keep failing (worker.go:54-91, store_privacy.go:90-173).
EveryRequestSettles ==
  \A r \in Requests : Recorded(r) ~> row[r].status \in Settled
=============================================================================
