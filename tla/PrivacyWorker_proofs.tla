------------------------- MODULE PrivacyWorker_proofs -------------------------
(***************************************************************************)
(* CompletedIsErased and FinishedTableIsErased for any number of workers,  *)
(* requests, tables, attempts and faults.  No worker can undo what another *)
(* one erased, since nothing of a recorded scope is ever added: what a     *)
(* worker knows stays true whatever the others do (Sound, OthersKnow).     *)
(***************************************************************************)
EXTENDS PrivacyWorkerInv, PrivacyWorkerErasure, TLAPS

\* What every step guarantees to the workers that do not take it.
Sound ==
  /\ \A r \in Requests : Recorded(r) => Recorded(r)'
  /\ \A r \in Requests, t \in Tables : Recorded(r) /\ Gone(r, t) => Gone(r, t)'
  /\ \A r \in Requests :
       row'[r] # row[r] /\ row'[r].status = "completed" =>
         Recorded(r) /\ (r \in OptOuts \/ Erased(r))
  /\ \A r \in Requests, t \in Tables :
       progress'[r][t] # progress[r][t] =>
         /\ Recorded(r)
         /\ progress'[r][t].status = "completed" => Gone(r, t)

\* Only worker w moves.
Alone(w) ==
  \A v \in Workers \ {w} :
    wpc'[v] = wpc[v] /\ job'[v] = job[v] /\ table'[v] = table[v]

LEMMA TableOf ==
  ASSUME NEW r \in Requests, NEW k \in DOMAIN TablesOf[r]
  PROVE  TablesOf[r][k] \in TablesTouched(r) /\ TablesOf[r][k] \in Tables
BY WorkerAssumption DEF TablesTouched

LEMMA TouchedTables ==
  ASSUME NEW r \in Requests, NEW t \in TablesTouched(r)
  PROVE  t \in Tables
BY TableOf DEF TablesTouched

\* What a worker knows survives the steps of the others.
LEMMA KnowledgeStays ==
  ASSUME PInv, Sound, NEW v \in Workers,
         wpc'[v] = wpc[v], job'[v] = job[v], table'[v] = table[v]
  PROVE  WorkerKnows(v)'
<1> DEFINE r == job[v].req
<1>1. WorkerKnows(v)
  BY DEF PInv, WorkersKnow
<1>2. wpc[v] \in Busy \ {"claim"} => job'[v] \in Job /\ r \in Requests /\ Recorded(r) /\ Recorded(r)'
  BY <1>1 DEF WorkerKnows, Sound, Job
<1>3. ASSUME wpc[v] \in DeletionSteps
      PROVE  /\ table[v] \in DOMAIN TablesOf[r]
             /\ r \notin OptOuts
             /\ \A i \in DOMAIN TablesOf[r] : i < table[v] => Gone(r, TablesOf[r][i])'
  <2>1. r \in Requests /\ Recorded(r) /\ job'[v].req = r
    BY <1>2, <1>3 DEF Busy, DeletionSteps
  <2>2. table[v] \in DOMAIN TablesOf[r] /\ r \notin OptOuts /\ GoneBefore(r, table[v])
    BY <1>1, <1>3 DEF WorkerKnows
  <2>3. ASSUME NEW i \in DOMAIN TablesOf[r], i < table[v]
        PROVE  Gone(r, TablesOf[r][i])'
    BY <2>1, <2>2, <2>3, TableOf DEF GoneBefore, Sound
  <2> QED BY <2>2, <2>3
<1>4. ASSUME wpc[v] = "finish"
      PROVE  Gone(r, TablesOf[r][table[v]])'
  BY <1>1, <1>2, <1>4, TableOf DEF WorkerKnows, Table, Sound, Busy, DeletionSteps
<1>5. ASSUME wpc[v] = "complete", r \notin OptOuts
      PROVE  Erased(r)'
  BY <1>1, <1>2, <1>5, TouchedTables DEF WorkerKnows, Erased, Sound, Busy, TablesTouched
<1> QED
  BY <1>1, <1>2, <1>3, <1>4, <1>5 DEF WorkerKnows, Table, GoneBefore

LEMMA OthersKnow ==
  ASSUME PInv, Sound, NEW w \in Workers, Alone(w), WorkerKnows(w)'
  PROVE  WorkersKnow'
BY KnowledgeStays DEF Alone, WorkersKnow

\* The facts about the tables follow from Sound alone.
LEMMA SoundKeepsTables ==
  ASSUME PInv, Sound, TypeOK', WorkersKnow'
  PROVE  PInv'
<1>1. ProgressIsRecorded'
  BY DEF PInv, ProgressIsRecorded, Sound
<1>2. FinishedTableIsErased'
  <2>. SUFFICES ASSUME NEW r \in Requests, NEW t \in Tables,
                       progress'[r][t].status = "completed"
                PROVE  Gone(r, t)'
    BY DEF FinishedTableIsErased, Gone
  <2>1. Recorded(r) /\ Gone(r, t)
    BY DEF PInv, ProgressIsRecorded, FinishedTableIsErased, Gone, Sound
  <2> QED BY <2>1 DEF Sound
<1>3. CompletedIsErased'
  <2>. SUFFICES ASSUME NEW r \in Requests, row'[r].status = "completed", Deletes(r),
                       NEW t \in TablesTouched(r)
                PROVE  Gone(r, t)'
    BY DEF CompletedIsErased, Gone, Deletes, TablesTouched
  <2>1. t \in Tables
    BY TouchedTables
  <2>2. Recorded(r) /\ Gone(r, t)
    BY DEF PInv, CompletedIsErased, Sound, Erased, Deletes, Gone, Recorded
  <2> QED BY <2>1, <2>2 DEF Sound
<1> QED BY <1>1, <1>2, <1>3 DEF PInv

-----------------------------------------------------------------------------
(* The two kinds of INSERT, and the loops                                  *)

TablesTyped ==
  /\ row \in [Requests -> RowState]
  /\ due \in [Requests -> BOOLEAN]
  /\ progress \in [Requests -> [Tables -> RowState]]
  /\ held \in [Tables -> SUBSET Items]

LocalsTyped ==
  /\ wpc \in [Workers -> {"idle"} \cup Busy]
  /\ listed \in [Workers -> SUBSET Job]
  /\ job \in [Workers -> Job \cup {NoJob}]
  /\ table \in [Workers -> Nat \ {0}]
  /\ tried \in [Workers -> Nat]

TallyTyped == faults \in 0..MaxFaults /\ met \in [Requests -> Nat]

LEMMA TypeParts ==
  /\ TypeOK <=> TablesTyped /\ LocalsTyped /\ TallyTyped
  /\ TypeOK' <=> TablesTyped' /\ LocalsTyped' /\ TallyTyped'
BY DEF TypeOK, TablesTyped, LocalsTyped, TallyTyped

LEMMA FaultsTyped ==
  ASSUME PInv, NEW w \in Workers, NoFault \/ Fault(w)
  PROVE  TallyTyped'
BY WorkerAssumption DEF NoFault, Fault, PInv, TypeOK, TallyTyped, tally

LEMMA TablesUntouched ==
  ASSUME PInv, UNCHANGED <<rows, progress, held>>
  PROVE  Sound /\ TablesTyped'
BY DEF Sound, rows, Recorded, Gone, PInv, TypeOK, TablesTyped

\* insertPrivacyStatus.
LEMMA PutStatusIsSound ==
  ASSUME PInv, NEW r \in Requests, Recorded(r), NEW new \in RowState,
         new.status # "absent",
         new.status = "completed" => r \in OptOuts \/ Erased(r),
         PutStatus(r, new) \/ UNCHANGED rows,
         UNCHANGED <<progress, held>>
  PROVE  Sound /\ TablesTyped'
<1>1. TablesTyped
  BY TypeParts DEF PInv
<1>2. CASE UNCHANGED rows
  BY <1>2, TablesUntouched
<1>3. CASE PutStatus(r, new)
  <2>1. \A q \in Requests : row'[q] = row[q] \/ (q = r /\ row'[q] = new)
    BY <1>1, <1>3 DEF PutStatus, Later, TablesTyped
  <2>2. row' \in [Requests -> RowState]
    BY <1>1, <1>3 DEF PutStatus, Later, TablesTyped
  <2>3. due' \in [Requests -> BOOLEAN]
    BY <1>1, <1>3 DEF PutStatus, TablesTyped
  <2>4. Sound
    BY <2>1 DEF Sound, Recorded, Gone
  <2> QED BY <1>1, <2>2, <2>3, <2>4 DEF TablesTyped
<1> QED BY <1>2, <1>3

\* insertDeletionProgress.
LEMMA PutProgressIsSound ==
  ASSUME PInv, NEW w \in Workers, wpc[w] \in DeletionSteps, NEW new \in RowState,
         new.status = "completed" => Gone(job[w].req, Table(w)),
         PutProgress(w, new) \/ UNCHANGED progress,
         UNCHANGED <<rows, held>>
  PROVE  Sound /\ TablesTyped'
<1> DEFINE r == job[w].req
           t == Table(w)
<1>1. TablesTyped
  BY TypeParts DEF PInv
<1>2. r \in Requests /\ Recorded(r) /\ t \in Tables
  BY TableOf DEF PInv, WorkersKnow, WorkerKnows, DeletionSteps, Busy, Job, Table
<1>3. CASE UNCHANGED progress
  BY <1>3, TablesUntouched
<1>4. CASE PutProgress(w, new)
  <2>1. PICK v \in {new, progress[r][t]} : progress' = [progress EXCEPT ![r][t] = v]
    BY <1>4 DEF PutProgress, Later
  <2>2. \A q \in Requests, u \in Tables :
          progress'[q][u] = progress[q][u] \/ (q = r /\ u = t /\ progress'[q][u] = new)
    BY <1>1, <1>2, <2>1 DEF TablesTyped
  <2>3. progress' \in [Requests -> [Tables -> RowState]]
    BY <1>1, <1>2, <2>1 DEF TablesTyped
  <2>4. Sound
    BY <1>2, <2>2 DEF Sound, Recorded, Gone, rows
  <2> QED BY <1>1, <2>3, <2>4 DEF TablesTyped, rows
<1> QED BY <1>3, <1>4

LEMMA NextJobKnows ==
  ASSUME PInv, NEW w \in Workers, NextJob(w)
  PROVE  LocalsTyped' /\ Alone(w) /\ WorkerKnows(w)'
<1>1. LocalsTyped
  BY TypeParts DEF PInv
<1>2. LocalsTyped' /\ Alone(w)
  BY <1>1 DEF NextJob, LocalsTyped, Alone, Busy
<1>3. WorkerKnows(w)'
  BY <1>1 DEF NextJob, LocalsTyped, WorkerKnows, DeletionSteps, Busy
<1> QED BY <1>2, <1>3

\* A worker inside the loop over the tables.
LEMMA AtTable ==
  ASSUME PInv, NEW w \in Workers, wpc[w] \in DeletionSteps
  PROVE  \E r \in Requests, k \in Nat :
           /\ k \in DOMAIN TablesOf[r]
           /\ job[w] \in Job /\ r = job[w].req /\ k = table[w]
           /\ r \notin OptOuts /\ Recorded(r) /\ GoneBefore(r, k)
           /\ Table(w) = TablesOf[r][k]
BY DEF PInv, TypeOK, WorkersKnow, WorkerKnows, DeletionSteps, Busy, Job, Table

\* A step within the loop over the tables, at the same table.
LEMMA GotoKnows ==
  ASSUME PInv, Sound, NEW w \in Workers, NEW step \in DeletionSteps \cup {"retry"},
         wpc[w] \in DeletionSteps, Goto(w, step), tried' \in [Workers -> Nat],
         step = "finish" => Gone(job[w].req, Table(w))'
  PROVE  LocalsTyped' /\ Alone(w) /\ WorkerKnows(w)'
<1>1. LocalsTyped
  BY TypeParts DEF PInv
<1>2. /\ wpc' = [wpc EXCEPT ![w] = step] /\ listed' = listed /\ job' = job /\ table' = table
      /\ wpc'[w] = step
  BY <1>1 DEF Goto, LocalsTyped
<1>3. LocalsTyped' /\ Alone(w)
  BY <1>1, <1>2 DEF LocalsTyped, Alone, Busy
<1>4. PICK r \in Requests, k \in Nat :
        /\ k \in DOMAIN TablesOf[r]
        /\ job[w] \in Job /\ r = job[w].req /\ k = table[w]
        /\ r \notin OptOuts /\ Recorded(r) /\ GoneBefore(r, k)
  BY AtTable
<1>5. Recorded(r)'
  BY <1>4 DEF Sound
<1>6. GoneBefore(r, k)'
  BY <1>4, TableOf DEF GoneBefore, Sound
<1> QED
  BY <1>2, <1>3, <1>4, <1>5, <1>6 DEF WorkerKnows, Busy, DeletionSteps

\* The table the worker is at is done: on to the next one, or to the end.
LEMMA NextTableKnows ==
  ASSUME PInv, Sound, NEW w \in Workers, wpc[w] \in DeletionSteps, NextTable(w),
         tried' \in [Workers -> Nat], Gone(job[w].req, Table(w))
  PROVE  LocalsTyped' /\ Alone(w) /\ WorkerKnows(w)'
<1>1. LocalsTyped
  BY TypeParts DEF PInv
<1>2. PICK r \in Requests, k \in Nat :
        /\ k \in DOMAIN TablesOf[r]
        /\ job[w] \in Job /\ r = job[w].req /\ k = table[w]
        /\ r \notin OptOuts /\ Recorded(r) /\ GoneBefore(r, k)
        /\ Table(w) = TablesOf[r][k]
  BY AtTable
<1>3. TablesOf[r] \in Seq(Tables) /\ DOMAIN TablesOf[r] = 1..Len(TablesOf[r])
      /\ Len(TablesOf[r]) \in Nat
  BY WorkerAssumption
<1>4. job' = job /\ listed' = listed /\ Recorded(r)'
  BY <1>2 DEF NextTable, Sound
<1>5. ASSUME NEW i \in DOMAIN TablesOf[r], i < k + 1
      PROVE  Gone(r, TablesOf[r][i])'
  <2>1. i < k \/ i = k
    BY <1>3, <1>5
  <2>2. Gone(r, TablesOf[r][i])
    BY <1>2, <2>1 DEF GoneBefore
  <2> QED BY <1>2, <2>2, TableOf DEF Sound
<1>6. CASE k < Len(TablesOf[r])
  <2>1. wpc' = [wpc EXCEPT ![w] = "progress"] /\ table' = [table EXCEPT ![w] = k + 1]
    BY <1>2, <1>6 DEF NextTable
  <2>2. k + 1 \in DOMAIN TablesOf[r]
    BY <1>3, <1>6
  <2>3. LocalsTyped' /\ Alone(w) /\ wpc'[w] = "progress" /\ table'[w] = k + 1
    BY <1>1, <1>3, <1>4, <2>1, <2>2 DEF LocalsTyped, Alone, Busy, DeletionSteps
  <2>4. GoneBefore(r, k + 1)'
    BY <1>5 DEF GoneBefore
  <2> QED
    BY <1>2, <1>4, <2>2, <2>3, <2>4 DEF WorkerKnows, Busy, DeletionSteps
<1>7. CASE ~(k < Len(TablesOf[r]))
  <2>1. wpc' = [wpc EXCEPT ![w] = "complete"] /\ table' = table
    BY <1>2, <1>7 DEF NextTable
  <2>2. \A i \in DOMAIN TablesOf[r] : i < k + 1
    BY <1>3, <1>7
  <2>3. Erased(r)'
    BY <1>5, <2>2 DEF Erased, TablesTouched
  <2>4. LocalsTyped' /\ Alone(w) /\ wpc'[w] = "complete"
    BY <1>1, <1>4, <2>1 DEF LocalsTyped, Alone, Busy
  <2> QED BY <1>2, <1>4, <2>3, <2>4 DEF WorkerKnows, Busy, DeletionSteps
<1> QED BY <1>6, <1>7

-----------------------------------------------------------------------------
(* The actions                                                             *)

LEMMA WorkerStepKeepsPInv ==
  ASSUME PInv, NEW w \in Workers, Sound, TablesTyped', LocalsTyped',
         NoFault \/ Fault(w), Alone(w), WorkerKnows(w)'
  PROVE  PInv'
BY OthersKnow, SoundKeepsTables, TypeParts, FaultsTyped

LEMMA OutsideStepKeepsPInv ==
  ASSUME PInv, Sound, TablesTyped', UNCHANGED <<locals, tally>>
  PROVE  PInv'
<1>1. LocalsTyped' /\ TallyTyped'
  BY TypeParts DEF PInv, LocalsTyped, TallyTyped, locals, tally
<1>2. WorkersKnow'
  BY KnowledgeStays DEF WorkersKnow, locals
<1> QED BY <1>1, <1>2, SoundKeepsTables, TypeParts

LEMMA PendingKeepsPInv ==
  ASSUME PInv, NEW w \in Workers, PendingPrivacyRequests(w)
  PROVE  PInv'
<1>1. Sound /\ TablesTyped'
  BY TablesUntouched DEF PendingPrivacyRequests, rows
<1>2. TablesTyped /\ LocalsTyped /\ WorkerKnows(w)
  BY TypeParts DEF PInv, WorkersKnow
<1>3. PICK first \in SUBSET Requests :
        /\ listed' = [listed EXCEPT ![w] = {[req |-> r, attempts |-> row[r].attempts] : r \in first}]
        /\ wpc' = [wpc EXCEPT ![w] = IF first = {} THEN "idle" ELSE "claim"]
        /\ UNCHANGED <<job, table, tried>>
  BY DEF PendingPrivacyRequests
<1>4. {[req |-> r, attempts |-> row[r].attempts] : r \in first} \in SUBSET Job
  BY <1>2 DEF TablesTyped, RowState, Job
<1>5. LocalsTyped' /\ Alone(w)
  BY <1>2, <1>3, <1>4 DEF LocalsTyped, Alone, Busy
<1>6. WorkerKnows(w)'
  BY <1>2, <1>3 DEF PendingPrivacyRequests, WorkerKnows, At, LocalsTyped, Busy, DeletionSteps
<1> QED BY <1>1, <1>5, <1>6, WorkerStepKeepsPInv DEF PendingPrivacyRequests, NoFault

LEMMA ReadClaimKeepsPInv ==
  ASSUME PInv, NEW w \in Workers, ReadClaim(w)
  PROVE  PInv'
<1>1. Sound /\ TablesTyped' /\ (NoFault \/ Fault(w))
  BY TablesUntouched DEF ReadClaim, rows
<1>2. TablesTyped /\ LocalsTyped /\ WorkerKnows(w) /\ At(w, "claim")
  BY TypeParts DEF PInv, WorkersKnow, ReadClaim
<1>3. PICK j \in listed[w] :
        \/ /\ Claimable(j.req)
           /\ job' = [job EXCEPT ![w] = j]
           /\ wpc' = [wpc EXCEPT ![w] = "mark"]
           /\ tried' = [tried EXCEPT ![w] = row[j.req].attempts]
           /\ UNCHANGED <<listed, table>>
        \/ /\ listed' = [listed EXCEPT ![w] = @ \ {j}]
           /\ wpc' = [wpc EXCEPT ![w] = IF listed[w] = {j} THEN "idle" ELSE "claim"]
           /\ UNCHANGED <<job, table, tried>>
  BY DEF ReadClaim
<1>4. j \in Job /\ j.req \in Requests /\ row[j.req].attempts \in Nat
  BY <1>2 DEF LocalsTyped, TablesTyped, Job, RowState
<1>5. LocalsTyped' /\ Alone(w)
  BY <1>2, <1>3, <1>4 DEF LocalsTyped, Alone, Busy
<1>6. Claimable(j.req) => Recorded(j.req) /\ Recorded(j.req)'
  BY <1>1, <1>4 DEF Claimable, Recorded, Sound
<1>7. WorkerKnows(w)'
  BY <1>2, <1>3, <1>4, <1>6 DEF WorkerKnows, At, LocalsTyped, Busy, DeletionSteps
<1> QED BY <1>1, <1>5, <1>7, WorkerStepKeepsPInv

LEMMA MarkClaimKeepsPInv ==
  ASSUME PInv, NEW w \in Workers, MarkClaim(w)
  PROVE  PInv'
<1> DEFINE new == State("processing", tried[w] + 1)
<1>1. LocalsTyped /\ WorkerKnows(w) /\ At(w, "mark") /\ (NoFault \/ Fault(w))
  BY TypeParts DEF PInv, WorkersKnow, MarkClaim
<1>2. PICK r \in Requests : r = job[w].req /\ job[w] \in Job /\ Recorded(r) /\ table[w] = 1
  BY <1>1 DEF WorkerKnows, At, Busy, DeletionSteps, Job
<1>3. new \in RowState /\ new.status = "processing"
  BY <1>1 DEF LocalsTyped, State, RowState, Statuses
<1>4. Sound /\ TablesTyped'
  BY <1>2, <1>3, PutStatusIsSound DEF MarkClaim
<1>5. CASE NextJob(w)
  BY <1>1, <1>4, <1>5, NextJobKnows, WorkerStepKeepsPInv
<1>6. CASE /\ job' = [job EXCEPT ![w].attempts = @ + 1]
           /\ wpc' = [wpc EXCEPT ![w] = IF r \in OptOuts THEN "complete" ELSE "progress"]
           /\ UNCHANGED <<listed, table, tried>>
  <2>1. job[w].attempts \in Nat
    BY <1>2 DEF Job
  <2>2. job' = [job EXCEPT ![w] = [@ EXCEPT !.attempts = job[w].attempts + 1]]
    BY <1>6
  <2>3. job'[w] \in Job /\ job'[w].req = r
    BY <1>1, <1>2, <2>1, <2>2 DEF LocalsTyped, Job
  <2>4. LocalsTyped' /\ Alone(w)
    BY <1>1, <1>6, <2>2, <2>3 DEF LocalsTyped, Alone, Busy, DeletionSteps
  <2>5. Recorded(r)' /\ 1 \in DOMAIN TablesOf[r] /\ GoneBefore(r, 1)'
    BY <1>2, <1>4, WorkerAssumption DEF Sound, GoneBefore
  <2>6. WorkerKnows(w)'
    BY <1>1, <1>2, <1>6, <2>3, <2>5 DEF WorkerKnows, LocalsTyped, Busy, DeletionSteps
  <2> QED BY <1>1, <1>4, <2>4, <2>6, WorkerStepKeepsPInv
<1> QED BY <1>2, <1>5, <1>6 DEF MarkClaim

LEMMA CompleteKeepsPInv ==
  ASSUME PInv, NEW w \in Workers, CompletePrivacyRequest(w)
  PROVE  PInv'
<1> DEFINE new == State("completed", job[w].attempts)
<1>1. WorkerKnows(w) /\ At(w, "complete") /\ (NoFault \/ Fault(w)) /\ NextJob(w)
  BY DEF PInv, WorkersKnow, CompletePrivacyRequest, Insert
<1>2. PICK r \in Requests : /\ r = job[w].req /\ job[w] \in Job /\ Recorded(r)
                            /\ r \in OptOuts \/ Erased(r)
  BY <1>1 DEF WorkerKnows, At, Busy, DeletionSteps, Job
<1>3. new \in RowState /\ new.status # "absent"
  BY <1>2 DEF State, RowState, Statuses, Job
<1>4. Sound /\ TablesTyped'
  BY <1>2, <1>3, PutStatusIsSound DEF CompletePrivacyRequest, Insert
<1> QED BY <1>1, <1>4, NextJobKnows, WorkerStepKeepsPInv

LEMMA RetryKeepsPInv ==
  ASSUME PInv, NEW w \in Workers, RetryPrivacyRequest(w)
  PROVE  PInv'
<1>1. WorkerKnows(w) /\ At(w, "retry") /\ (NoFault \/ Fault(w)) /\ NextJob(w)
  BY DEF PInv, WorkersKnow, RetryPrivacyRequest, Insert
<1>2. PICK r \in Requests : r = job[w].req /\ job[w] \in Job /\ Recorded(r)
  BY <1>1 DEF WorkerKnows, At, Busy, DeletionSteps, Job
<1>3. PICK status \in {"failed", "retry"} :
        PutStatus(r, State(status, job[w].attempts)) \/ UNCHANGED rows
  BY <1>2 DEF RetryPrivacyRequest, Insert
<1>4. /\ State(status, job[w].attempts) \in RowState
      /\ State(status, job[w].attempts).status \notin {"absent", "completed"}
  BY <1>2 DEF State, RowState, Statuses, Job
<1>5. Sound /\ TablesTyped'
  BY <1>2, <1>3, <1>4, PutStatusIsSound DEF RetryPrivacyRequest
<1> QED BY <1>1, <1>5, NextJobKnows, WorkerStepKeepsPInv

LEMMA DeletionProgressKeepsPInv ==
  ASSUME PInv, NEW w \in Workers, DeletionProgress(w)
  PROVE  PInv'
<1>1. Sound /\ TablesTyped'
  BY TablesUntouched DEF DeletionProgress, rows
<1>2. /\ TablesTyped /\ LocalsTyped /\ wpc[w] \in DeletionSteps /\ (NoFault \/ Fault(w))
  BY TypeParts DEF PInv, DeletionProgress, At, DeletionSteps
<1>3. job[w].req \in Requests /\ Table(w) \in Tables
  BY <1>2, AtTable, TableOf
<1>4. tried' \in [Workers -> Nat]
  BY <1>2, <1>3 DEF DeletionProgress, Progress, LocalsTyped, TablesTyped, RowState
<1>5. CASE Progress(w).status = "completed" /\ NextTable(w)
  <2>1. Gone(job[w].req, Table(w))
    BY <1>3, <1>5 DEF PInv, FinishedTableIsErased, Progress, Gone
  <2> QED BY <1>1, <1>2, <1>4, <1>5, <2>1, NextTableKnows, WorkerStepKeepsPInv
<1>6. CASE Goto(w, "start") \/ Goto(w, "retry")
  BY <1>1, <1>2, <1>4, <1>6, GotoKnows, WorkerStepKeepsPInv DEF DeletionSteps
<1> QED BY <1>5, <1>6 DEF DeletionProgress

LEMMA StartTableKeepsPInv ==
  ASSUME PInv, NEW w \in Workers, StartTable(w) \/ RequeueTable(w)
  PROVE  PInv'
<1>1. /\ LocalsTyped /\ wpc[w] \in DeletionSteps /\ (NoFault \/ Fault(w))
      /\ tried' = tried /\ UNCHANGED <<rows, held>>
  BY TypeParts DEF PInv, StartTable, RequeueTable, Insert, At, DeletionSteps
<1>2. PICK status \in {"processing", "retry"} :
        PutProgress(w, State(status, tried[w] + 1)) \/ UNCHANGED progress
  BY DEF StartTable, RequeueTable, Insert
<1>3. /\ State(status, tried[w] + 1) \in RowState
      /\ State(status, tried[w] + 1).status # "completed"
  BY <1>1 DEF LocalsTyped, State, RowState, Statuses
<1>4. Sound /\ TablesTyped'
  BY <1>1, <1>2, <1>3, PutProgressIsSound
<1>5. PICK step \in {"mutate", "retry"} : Goto(w, step)
  BY DEF StartTable, RequeueTable, Insert
<1>6. tried' \in [Workers -> Nat]
  BY <1>1 DEF LocalsTyped
<1> QED BY <1>1, <1>4, <1>5, <1>6, GotoKnows, WorkerStepKeepsPInv DEF DeletionSteps

LEMMA FinishTableKeepsPInv ==
  ASSUME PInv, NEW w \in Workers, FinishTable(w)
  PROVE  PInv'
<1>1. /\ LocalsTyped /\ wpc[w] \in DeletionSteps /\ (NoFault \/ Fault(w))
      /\ tried' = tried /\ UNCHANGED <<rows, held>>
  BY TypeParts DEF PInv, FinishTable, Insert, At, DeletionSteps
<1>2. Gone(job[w].req, Table(w))
  BY DEF PInv, WorkersKnow, WorkerKnows, FinishTable, At
<1>3. State("completed", tried[w] + 1) \in RowState
  BY <1>1 DEF LocalsTyped, State, RowState, Statuses
<1>4. PutProgress(w, State("completed", tried[w] + 1)) \/ UNCHANGED progress
  BY DEF FinishTable, Insert
<1>5. Sound /\ TablesTyped'
  BY <1>1, <1>2, <1>3, <1>4, PutProgressIsSound
<1>6. tried' \in [Workers -> Nat]
  BY <1>1 DEF LocalsTyped
<1>7. CASE NextTable(w)
  BY <1>1, <1>2, <1>5, <1>6, <1>7, NextTableKnows, WorkerStepKeepsPInv
<1>8. CASE Goto(w, "retry")
  BY <1>1, <1>5, <1>6, <1>8, GotoKnows, WorkerStepKeepsPInv DEF DeletionSteps
<1> QED BY <1>7, <1>8 DEF FinishTable, Insert

LEMMA MutateKeepsPInv ==
  ASSUME PInv, NEW w \in Workers, Mutate(w)
  PROVE  PInv'
<1>1. /\ TablesTyped /\ LocalsTyped /\ wpc[w] \in DeletionSteps /\ (NoFault \/ Fault(w))
      /\ tried' = tried /\ UNCHANGED <<rows, progress>>
  BY TypeParts DEF PInv, Mutate, Insert, At, DeletionSteps
<1>2. PICK r \in Requests, k \in Nat :
        /\ k \in DOMAIN TablesOf[r]
        /\ r = job[w].req /\ k = table[w] /\ Table(w) = TablesOf[r][k]
  BY <1>1, AtTable
<1>3. PICK t \in Tables : t = Table(w)
  BY <1>2, TableOf
<1>4. held' = [held EXCEPT ![t] = @ \ ScopeOf[r]] \/ held' = held
  BY <1>2, <1>3 DEF Mutate, Insert
<1>5. \A u \in Tables : held'[u] \subseteq held[u]
  BY <1>1, <1>4 DEF TablesTyped
<1>6. Sound
  BY <1>1, <1>5 DEF Sound, Recorded, Gone, rows
<1>7. TablesTyped'
  BY <1>1, <1>4 DEF TablesTyped, rows
<1>8. tried' \in [Workers -> Nat]
  BY <1>1 DEF LocalsTyped
<1>9. CASE Goto(w, "requeue")
  BY <1>1, <1>6, <1>7, <1>8, <1>9, GotoKnows, WorkerStepKeepsPInv DEF DeletionSteps
<1>10. CASE Goto(w, "finish") /\ held' = [held EXCEPT ![t] = @ \ ScopeOf[r]]
  <2>1. held'[t] \cap ScopeOf[r] = {}
    BY <1>1, <1>10 DEF TablesTyped
  <2>2. job' = job /\ table' = table
    BY <1>10 DEF Goto
  <2>3. Gone(job[w].req, Table(w))'
    BY <1>2, <1>3, <2>1, <2>2 DEF Gone, Table
  <2> QED
    BY <1>1, <1>6, <1>7, <1>8, <1>10, <2>3, GotoKnows, WorkerStepKeepsPInv DEF DeletionSteps
<1> QED BY <1>2, <1>3, <1>9, <1>10 DEF Mutate, Insert

LEMMA CrashKeepsPInv ==
  ASSUME PInv, NEW w \in Workers, Crash(w)
  PROVE  PInv'
<1>1. Sound /\ TablesTyped' /\ Fault(w)
  BY TablesUntouched DEF Crash, rows
<1>2. LocalsTyped
  BY TypeParts DEF PInv
<1>3. LocalsTyped' /\ Alone(w) /\ WorkerKnows(w)'
  BY <1>2 DEF Crash, LocalsTyped, Alone, WorkerKnows, Busy, DeletionSteps
<1> QED BY <1>1, <1>3, WorkerStepKeepsPInv

LEMMA OutsideKeepsPInv ==
  ASSUME PInv,
         \/ \E r \in Requests : CreateRequest(r) \/ Elapse(r)
         \/ \E t \in Tables, i \in Items : Ingest(t, i)
  PROVE  PInv'
<1>1. TablesTyped
  BY TypeParts DEF PInv
<1>2. ASSUME NEW r \in Requests, CreateRequest(r)
      PROVE  Sound /\ TablesTyped'
  BY <1>1, <1>2 DEF CreateRequest, Recorded, Sound, Gone, TablesTyped, State, RowState, Statuses
<1>3. ASSUME NEW r \in Requests, Elapse(r)
      PROVE  Sound /\ TablesTyped'
  BY <1>1, <1>3 DEF Elapse, Recorded, Sound, Gone, TablesTyped
<1>4. ASSUME NEW t \in Tables, NEW i \in Items, Ingest(t, i)
      PROVE  Sound /\ TablesTyped'
  <2>1. Sound
    BY <1>1, <1>4 DEF Ingest, Recorded, Sound, Gone, TablesTyped, rows
  <2>2. TablesTyped'
    BY <1>1, <1>4 DEF Ingest, TablesTyped, rows
  <2> QED BY <2>1, <2>2
<1> QED BY <1>2, <1>3, <1>4, OutsideStepKeepsPInv DEF CreateRequest, Elapse, Ingest

-----------------------------------------------------------------------------
(* The theorems                                                            *)

LEMMA InitPInv ==
  ASSUME Init
  PROVE  PInv
<1>1. TypeOK
  BY WorkerAssumption DEF Init, TypeOK, RowState, Statuses, Absent, State, Busy
<1>2. WorkersKnow
  BY DEF Init, WorkersKnow, WorkerKnows, Busy, DeletionSteps
<1>3. ProgressIsRecorded /\ CompletedIsErased /\ FinishedTableIsErased
  BY DEF Init, ProgressIsRecorded, CompletedIsErased, FinishedTableIsErased, Absent, State
<1> QED BY <1>1, <1>2, <1>3 DEF PInv

LEMMA NextKeepsPInv ==
  ASSUME PInv, [Next]_vars
  PROVE  PInv'
<1>1. CASE UNCHANGED vars
  BY <1>1, TablesUntouched, OutsideStepKeepsPInv DEF vars, tally, rows, locals
<1>2. ASSUME NEW w \in Workers, RunOnce(w) \/ Crash(w)
      PROVE  PInv'
  BY <1>2, PendingKeepsPInv, ReadClaimKeepsPInv, MarkClaimKeepsPInv, CompleteKeepsPInv,
     RetryKeepsPInv, DeletionProgressKeepsPInv, StartTableKeepsPInv, FinishTableKeepsPInv,
     MutateKeepsPInv, CrashKeepsPInv DEF RunOnce, DeleteTelemetryRequest
<1>3. CASE \/ \E r \in Requests : CreateRequest(r) \/ Elapse(r)
           \/ \E t \in Tables, i \in Items : Ingest(t, i)
  BY <1>3, OutsideKeepsPInv
<1> QED BY <1>1, <1>2, <1>3 DEF Next

\* The invariant holds whatever number of workers share the tables.
THEOREM WorkersInvariance == Spec => []PInv
<1>1. Init => PInv
  BY InitPInv
<1>2. PInv /\ [Next]_vars => PInv'
  BY NextKeepsPInv
<1> QED BY <1>1, <1>2, PTL DEF Spec

\* A deletion that reads completed has erased its scope in every table.
THEOREM CompletionIsHonest == Spec => []CompletedIsErased
<1>1. PInv => CompletedIsErased
  BY DEF PInv
<1> QED BY <1>1, WorkersInvariance, PTL

\* A table marked finished holds nothing of the scope.
THEOREM ProgressIsHonest == Spec => []FinishedTableIsErased
<1>1. PInv => FinishedTableIsErased
  BY DEF PInv
<1> QED BY <1>1, WorkersInvariance, PTL

\* Every variable keeps its type.
THEOREM WorkerTypes == Spec => []TypeOK
<1>1. PInv => TypeOK
  BY DEF PInv
<1> QED BY <1>1, WorkersInvariance, PTL

-----------------------------------------------------------------------------
(* A single worker: its request is its own                                 *)

Sole == /\ \A w \in Workers : OwnsRow(w) /\ ListIsFresh(w)
        /\ TriesArePaid /\ AttemptsCountFaults

LEMMA SoleFacts ==
  ASSUME SInv, NEW w \in Workers
  PROVE  /\ TablesTyped /\ LocalsTyped /\ met \in [Requests -> Nat]
         /\ WorkerKnows(w) /\ OwnsRow(w) /\ ListIsFresh(w)
         /\ TriesArePaid /\ AttemptsCountFaults
BY TypeParts, WorkerAssumption DEF TallyTyped, SInv, PInv, WorkersKnow

\* With one worker, what it works on is all that is worked on.
LEMMA SoleAtWork ==
  ASSUME SingleWorker, NEW w \in Workers, NEW r \in Requests
  PROVE  /\ AtWork(r) <=> wpc[w] \in Working /\ job[w].req = r
         /\ AtWork(r)' <=> wpc'[w] \in Working /\ job'[w].req = r
BY DEF SingleWorker, AtWork

LEMMA SoleParts ==
  ASSUME SingleWorker, NEW w \in Workers,
         OwnsRow(w)', ListIsFresh(w)', TriesArePaid', AttemptsCountFaults'
  PROVE  Sole'
BY DEF SingleWorker, Sole

\* What has been met is never forgotten.
MetGrown ==
  /\ met \in [Requests -> Nat] /\ met' \in [Requests -> Nat]
  /\ \A r \in Requests : met'[r] >= met[r]

LEMMA MetGrows ==
  ASSUME SInv, NEW w \in Workers, NoFault \/ Fault(w)
  PROVE  /\ MetGrown
         /\ \A r \in Requests : Fault(w) /\ r = job[w].req => met'[r] = met[r] + 1
<1>1. met \in [Requests -> Nat]
  BY DEF SInv, PInv, TypeOK
<1> QED BY <1>1 DEF NoFault, Fault, MetGrown, tally

\* The request of a worker that has one.
LEMMA JobIsRequest ==
  ASSUME SInv, NEW w \in Workers, wpc[w] \in Working \cup {"mark"}
  PROVE  /\ job[w] \in Job /\ job[w].req \in Requests /\ job[w].attempts \in Nat
         /\ Recorded(job[w].req) /\ job[w].req # NoRequest
BY SoleFacts, WorkerAssumption DEF WorkerKnows, Working, Busy, DeletionSteps, Job

\* An INSERT whose version is not behind that of the row replaces the row.
LEMMA PutWins ==
  ASSUME TablesTyped, NEW r \in Requests, NEW new \in RowState,
         Version(new.status, new.attempts) >= Version(row[r].status, row[r].attempts),
         PutStatus(r, new)
  PROVE  row' = [row EXCEPT ![r] = new]
BY DEF PutStatus, Later, Wins

\* A step of the deletion that stays with the request.
LEMMA DeletionStepSole ==
  ASSUME SingleWorker, SInv, NEW w \in Workers, wpc[w] \in DeletionSteps,
         wpc'[w] \in Working, UNCHANGED <<row, job, listed>>, NoFault \/ Fault(w),
         wpc'[w] \in {"requeue", "retry"} => job[w].attempts <= met'[job[w].req],
         wpc'[w] \in {"start", "mutate", "finish", "requeue"} =>
           Progress(w)'.status # "completed"
  PROVE  Sole'
<1>1. wpc[w] \in Working /\ wpc[w] \notin {"idle", "claim", "mark"}
      /\ wpc'[w] \notin {"idle", "claim", "mark"}
  BY DEF Working, DeletionSteps
<1>2. MetGrown /\ row \in [Requests -> RowState]
  BY MetGrows, SoleFacts DEF TablesTyped
<1>3. OwnsRow(w)'
  BY <1>1, SoleFacts DEF OwnsRow
<1>4. ListIsFresh(w)'
  BY <1>1, SoleFacts DEF ListIsFresh
<1>5. \A r \in Requests : (AtWork(r)' <=> AtWork(r)) /\ row[r].attempts \in Nat
  BY <1>1, <1>2, SoleAtWork DEF RowState
<1>6. TriesArePaid' /\ AttemptsCountFaults'
  BY <1>2, <1>5, SoleFacts, WorkerAssumption DEF MetGrown, TriesArePaid, AttemptsCountFaults
<1> QED BY <1>3, <1>4, <1>6, SoleParts

\* Once a fault met a try, the try is paid for.
LEMMA OwnTryIsPaid ==
  ASSUME SInv, NEW w \in Workers, wpc[w] \in DeletionSteps,
         Fault(w) \/ (wpc[w] = "requeue" /\ (NoFault \/ Fault(w)))
  PROVE  job[w].attempts <= met'[job[w].req]
<1>1. /\ job[w].req \in Requests /\ job[w].attempts \in Nat
      /\ row[job[w].req] = State("processing", job[w].attempts)
      /\ wpc[w] = "requeue" => job[w].attempts <= met[job[w].req]
  BY JobIsRequest, SoleFacts DEF OwnsRow, Working
<1>2. row[job[w].req].attempts = job[w].attempts
  BY <1>1 DEF State
<1>3. job[w].attempts <= met[job[w].req] + 1 /\ met \in [Requests -> Nat]
  BY <1>1, <1>2, SoleFacts DEF AttemptsCountFaults
<1> QED BY <1>1, <1>3, MetGrows DEF MetGrown

\* The worker is done with its request, one way or the other.
LEMMA NextJobSole ==
  ASSUME SingleWorker, SInv, NEW w \in Workers, wpc[w] \in Working \cup {"mark"},
         NextJob(w), NoFault \/ Fault(w),
         NEW r \in Requests, r = job[w].req,
         \A q \in Requests \ {r} : row'[q] = row[q],
         row'[r] \in RowState, row'[r].status # "absent",
         row'[r].attempts <= met'[r] + 1,
         row'[r].status # "completed" => row'[r].attempts <= met'[r],
         row'[r].status = "failed" => met'[r] >= MaxAttempts
  PROVE  Sole'
<1>1. LocalsTyped /\ TablesTyped /\ MetGrown
  BY SoleFacts, MetGrows
<1>2. /\ wpc'[w] \in {"idle", "claim"} /\ job'[w] = NoJob
      /\ listed'[w] = {j \in listed[w] : j.req # r}
  BY <1>1 DEF NextJob, LocalsTyped
<1>3. OwnsRow(w)'
  BY <1>2 DEF OwnsRow, Working, DeletionSteps
<1>4. ListIsFresh(w)'
  <2>. SUFFICES ASSUME NEW j \in listed'[w]
                PROVE  j.attempts = row'[j.req].attempts
    BY DEF ListIsFresh
  <2>1. j \in listed[w] /\ j.req # r /\ j.req \in Requests
    BY <1>1, <1>2 DEF LocalsTyped, Job
  <2>2. wpc[w] # "idle"
    BY DEF Working, DeletionSteps
  <2> QED BY <2>1, <2>2, SoleFacts DEF ListIsFresh
<1>5. ASSUME NEW q \in Requests
      PROVE  /\ ~AtWork(q)'
             /\ q # r => ~AtWork(q)
             /\ row[q].attempts \in Nat
  BY <1>1, <1>2, SoleAtWork DEF Working, DeletionSteps, TablesTyped, RowState
<1>6. TriesArePaid'
  <2>. SUFFICES ASSUME NEW q \in Requests
                PROVE  /\ row'[q].status = "absent" => row'[q].attempts = 0
                       /\ row'[q].status # "completed" => row'[q].attempts <= met'[q]
    BY DEF TriesArePaid
  <2>1. CASE q = r
    BY <2>1
  <2>2. CASE q # r
    BY <1>1, <1>5, <2>2, SoleFacts DEF MetGrown, TriesArePaid
  <2> QED BY <2>1, <2>2
<1>7. AttemptsCountFaults'
  <2>. SUFFICES ASSUME NEW q \in Requests
                PROVE  /\ row'[q].attempts <= met'[q] + 1
                       /\ row'[q].status = "failed" => met'[q] >= MaxAttempts
    BY DEF AttemptsCountFaults
  <2>1. CASE q = r
    BY <2>1
  <2>2. CASE q # r
    <3>1. met[q] \in Nat /\ met'[q] \in Nat /\ met'[q] >= met[q] /\ MaxAttempts \in Nat
      BY <1>1, WorkerAssumption DEF MetGrown
    <3>2. /\ row'[q] = row[q] /\ row[q].attempts \in Nat /\ row[q].attempts <= met[q] + 1
          /\ row[q].status = "failed" => met[q] >= MaxAttempts
      BY <1>5, <2>2, SoleFacts DEF AttemptsCountFaults
    <3> QED BY <3>1, <3>2
  <2> QED BY <2>1, <2>2
<1> QED BY <1>3, <1>4, <1>6, <1>7, SoleParts

LEMMA PendingSole ==
  ASSUME SingleWorker, SInv, NEW w \in Workers, PendingPrivacyRequests(w)
  PROVE  Sole'
<1>1. LocalsTyped /\ TablesTyped
  BY SoleFacts
<1>2. /\ wpc[w] = "idle" /\ wpc'[w] \in {"idle", "claim"}
      /\ UNCHANGED <<row, job, met>>
  BY <1>1 DEF tally, PendingPrivacyRequests, At, rows, LocalsTyped
<1>3. OwnsRow(w)'
  BY <1>2, SoleFacts DEF OwnsRow, Working, DeletionSteps
<1>4. ListIsFresh(w)'
  <2>1. PICK first \in SUBSET Requests :
          listed' = [listed EXCEPT ![w] = {[req |-> r, attempts |-> row[r].attempts] : r \in first}]
    BY DEF PendingPrivacyRequests
  <2>2. listed'[w] = {[req |-> r, attempts |-> row[r].attempts] : r \in first}
    BY <1>1, <2>1 DEF LocalsTyped
  <2>3. \A j \in listed'[w] : j.attempts = row'[j.req].attempts
    BY <1>2, <2>2
  <2> QED BY <2>3 DEF ListIsFresh
<1>5. \A r \in Requests : ~AtWork(r) /\ ~AtWork(r)'
  BY <1>2, SoleAtWork DEF Working, DeletionSteps
<1>6. TriesArePaid' /\ AttemptsCountFaults'
  BY <1>2, <1>5, SoleFacts DEF TriesArePaid, AttemptsCountFaults
<1> QED BY <1>3, <1>4, <1>6, SoleParts

LEMMA ReadClaimSole ==
  ASSUME SingleWorker, SInv, NEW w \in Workers, ReadClaim(w)
  PROVE  Sole'
<1>1. LocalsTyped /\ TablesTyped /\ MetGrown
  BY SoleFacts, MetGrows DEF ReadClaim
<1>2. wpc[w] = "claim" /\ UNCHANGED row /\ job[w] = NoJob
  BY SoleFacts DEF ReadClaim, At, rows, OwnsRow
<1>3. PICK j \in listed[w] :
        \/ /\ Claimable(j.req)
           /\ job' = [job EXCEPT ![w] = j]
           /\ wpc' = [wpc EXCEPT ![w] = "mark"]
           /\ tried' = [tried EXCEPT ![w] = row[j.req].attempts]
           /\ UNCHANGED <<listed, table>>
        \/ /\ listed' = [listed EXCEPT ![w] = @ \ {j}]
           /\ wpc' = [wpc EXCEPT ![w] = IF listed[w] = {j} THEN "idle" ELSE "claim"]
           /\ UNCHANGED <<job, table, tried>>
  BY DEF ReadClaim
<1>4. wpc'[w] \in {"idle", "claim", "mark"}
  BY <1>1, <1>3 DEF LocalsTyped
<1>5. \A r \in Requests : ~AtWork(r) /\ ~AtWork(r)' /\ row[r].attempts \in Nat
  BY <1>1, <1>2, <1>4, SoleAtWork DEF Working, DeletionSteps, TablesTyped, RowState
<1>6. TriesArePaid' /\ AttemptsCountFaults'
  BY <1>1, <1>2, <1>5, SoleFacts, WorkerAssumption DEF MetGrown, TriesArePaid, AttemptsCountFaults
<1>7. \A k \in listed[w] : k.req \in Requests /\ k.attempts = row[k.req].attempts
  <2>1. \A k \in listed[w] : k.req \in Requests
    BY <1>1 DEF LocalsTyped, Job
  <2>2. job[w].req \notin Requests
    BY <1>2, WorkerAssumption DEF NoJob
  <2> QED BY <1>2, <2>1, <2>2, SoleFacts DEF ListIsFresh
<1>8. ListIsFresh(w)'
  BY <1>1, <1>2, <1>3, <1>7 DEF ListIsFresh, LocalsTyped
<1>9. OwnsRow(w)'
  <2>1. CASE wpc'[w] = "mark"
    <3>1. Claimable(j.req) /\ job'[w] = j /\ tried'[w] = row[j.req].attempts
      BY <1>1, <1>2, <1>3, <2>1 DEF LocalsTyped
    <3>2. row[j.req].attempts <= met[j.req]
      BY <1>5, <1>7, <3>1, SoleFacts DEF TriesArePaid, Claimable
    <3> QED BY <1>1, <1>2, <1>5, <1>7, <2>1, <3>1, <3>2
            DEF MetGrown, OwnsRow, Claimable, Working, DeletionSteps
  <2>2. CASE wpc'[w] \in {"idle", "claim"}
    BY <1>1, <1>2, <1>3, <2>2 DEF OwnsRow, LocalsTyped, Working, DeletionSteps
  <2> QED BY <1>4, <2>1, <2>2
<1> QED BY <1>6, <1>8, <1>9, SoleParts

LEMMA MarkClaimSole ==
  ASSUME SingleWorker, SInv, NEW w \in Workers, MarkClaim(w)
  PROVE  Sole' /\ (\A q \in Requests : row[q].status \in Settled => row'[q] = row[q])
<1> DEFINE r == job[w].req
           n == job[w].attempts
           new == State("processing", n + 1)
<1>1. LocalsTyped /\ TablesTyped /\ wpc[w] = "mark" /\ (NoFault \/ Fault(w))
  BY SoleFacts DEF MarkClaim, At
<1>2. MetGrown /\ (Fault(w) => met'[job[w].req] = met[job[w].req] + 1)
  BY <1>1, JobIsRequest, MetGrows DEF Working
<1>3. /\ job[w] \in Job /\ r \in Requests /\ n \in Nat /\ r # NoRequest
      /\ row[r].status \in {"pending", "retry", "processing"}
      /\ row[r].attempts = n /\ tried[w] = n /\ n <= met[r]
  BY <1>1, JobIsRequest, SoleFacts DEF OwnsRow
<1>4. new \in RowState /\ new.status = "processing" /\ new.attempts = n + 1
  BY <1>3 DEF State, RowState, Statuses
<1>5. PutStatus(r, new) => row' = [row EXCEPT ![r] = new]
  <2>1. Version(new.status, new.attempts) >= Version(row[r].status, row[r].attempts)
    BY <1>3, <1>4 DEF Version, Phase
  <2> QED BY <1>1, <1>3, <1>4, <2>1, PutWins
<1>6. \A q \in Requests \ {r} : row'[q] = row[q]
  BY <1>1, <1>3, <1>5 DEF MarkClaim, rows, TablesTyped
<1>7. CASE NextJob(w) /\ Fault(w)
  <2>1. row'[r] \in {new, row[r]}
    BY <1>1, <1>3, <1>5 DEF MarkClaim, rows, TablesTyped
  <2>2. /\ row'[r] \in RowState /\ row'[r].status # "absent"
        /\ row'[r].attempts <= met'[r] /\ row'[r].attempts <= met'[r] + 1
        /\ row'[r].status # "failed"
    BY <1>1, <1>2, <1>3, <1>4, <1>7, <2>1 DEF MetGrown, TablesTyped
  <2>3. Sole'
    BY <1>1, <1>3, <1>6, <1>7, <2>2, NextJobSole
  <2> QED BY <1>3, <1>6, <2>3 DEF Settled
<1>8. CASE /\ PutStatus(r, new) /\ NoFault
           /\ job' = [job EXCEPT ![w].attempts = @ + 1]
           /\ wpc' = [wpc EXCEPT ![w] = IF r \in OptOuts THEN "complete" ELSE "progress"]
           /\ UNCHANGED <<listed, table, tried>>
  <2>1. row' = [row EXCEPT ![r] = new] /\ row'[r] = new /\ met' = met
    BY <1>1, <1>3, <1>5, <1>8 DEF tally, MetGrown, TablesTyped, NoFault
  <2>2. /\ job'[w].req = r /\ job'[w].attempts = n + 1
        /\ wpc'[w] \in {"complete", "progress"}
    BY <1>1, <1>3, <1>8 DEF LocalsTyped, Job
  <2>3. OwnsRow(w)'
    BY <2>1, <2>2 DEF OwnsRow, Working, DeletionSteps
  <2>4. ListIsFresh(w)'
    <3>. SUFFICES ASSUME NEW j \in listed[w], j.req # r
                  PROVE  j.attempts = row'[j.req].attempts
      BY <1>8, <2>2 DEF ListIsFresh
    <3>1. j.req \in Requests /\ j.attempts = row[j.req].attempts
      BY <1>1, SoleFacts DEF ListIsFresh, LocalsTyped, Job
    <3> QED BY <1>6, <3>1
  <2>5. \A q \in Requests : /\ AtWork(q)' <=> q = r
                            /\ ~AtWork(q)
                            /\ row[q].attempts \in Nat
    BY <1>1, <2>2, SoleAtWork DEF Working, DeletionSteps, TablesTyped, RowState
  <2>6. TriesArePaid' /\ AttemptsCountFaults'
    <3>. SUFFICES ASSUME NEW q \in Requests
                  PROVE  /\ row'[q].status = "absent" => row'[q].attempts = 0
                         /\ q # r /\ row'[q].status # "completed" => row'[q].attempts <= met'[q]
                         /\ row'[q].attempts <= met'[q] + 1
                         /\ row'[q].status = "failed" => met'[q] >= MaxAttempts
      BY <2>5 DEF TriesArePaid, AttemptsCountFaults
    <3>1. CASE q = r
      BY <1>2, <1>3, <1>4, <2>1, <3>1 DEF MetGrown
    <3>2. CASE q # r
      BY <1>6, <2>1, <2>5, <3>2, SoleFacts DEF TriesArePaid, AttemptsCountFaults
    <3> QED BY <3>1, <3>2
  <2> QED BY <1>3, <1>6, <2>3, <2>4, <2>6, SoleParts DEF Settled
<1> QED BY <1>3, <1>7, <1>8 DEF MarkClaim

\* What CompletePrivacyRequest and RetryPrivacyRequest write wins over the row they
\* find, which is the worker's own.
LEMMA LastWrite ==
  ASSUME SInv, NEW w \in Workers, wpc[w] \in {"complete", "retry"},
         NEW status \in {"completed", "failed", "retry"}
  PROVE  LET r   == job[w].req
             new == State(status, job[w].attempts)
         IN  /\ new \in RowState /\ new.status = status /\ new.attempts = job[w].attempts
             /\ row[r] = State("processing", job[w].attempts)
             /\ row[r].status = "processing" /\ row[r].attempts = job[w].attempts
             /\ row[r] \in RowState
             /\ PutStatus(r, new) => row' = [row EXCEPT ![r] = new]
<1> DEFINE r == job[w].req
           new == State(status, job[w].attempts)
<1>1. r \in Requests /\ job[w].attempts \in Nat /\ TablesTyped
  BY JobIsRequest, SoleFacts DEF Working
<1>2. row[r] = State("processing", job[w].attempts)
  BY SoleFacts DEF OwnsRow, Working
<1>3. new \in RowState /\ new.status = status /\ new.attempts = job[w].attempts
  BY <1>1 DEF State, RowState, Statuses
<1>4. row[r].status = "processing" /\ row[r].attempts = job[w].attempts /\ row[r] \in RowState
  BY <1>1, <1>2 DEF State, TablesTyped
<1>5. Version(new.status, new.attempts) >= Version(row[r].status, row[r].attempts)
  BY <1>1, <1>3, <1>4 DEF Version, Phase
<1>6. PutStatus(r, new) => row' = [row EXCEPT ![r] = new]
  BY <1>1, <1>3, <1>5, PutWins
<1> HIDE DEF r, new
<1> QED BY <1>2, <1>3, <1>4, <1>6 DEF r, new

LEMMA CompleteSole ==
  ASSUME SingleWorker, SInv, NEW w \in Workers, CompletePrivacyRequest(w)
  PROVE  Sole' /\ (\A q \in Requests : row[q].status \in Settled => row'[q] = row[q])
<1> DEFINE r == job[w].req
           n == job[w].attempts
           new == State("completed", n)
<1>1. LocalsTyped /\ TablesTyped /\ wpc[w] = "complete" /\ (NoFault \/ Fault(w)) /\ NextJob(w)
  BY SoleFacts DEF CompletePrivacyRequest, At, Insert
<1>2. MetGrown /\ (Fault(w) => met'[job[w].req] = met[job[w].req] + 1)
  BY <1>1, JobIsRequest, MetGrows DEF Working
<1>3. r \in Requests /\ n \in Nat /\ wpc[w] \in Working
  BY <1>1, JobIsRequest DEF Working
<1>4. /\ new \in RowState /\ new.status = "completed" /\ new.attempts = n
      /\ row[r].status = "processing" /\ row[r].attempts = n /\ row[r] \in RowState
      /\ PutStatus(r, new) => row' = [row EXCEPT ![r] = new]
  BY <1>1, LastWrite
<1>5. row' = [row EXCEPT ![r] = new] \/ (row' = row /\ Fault(w))
  BY <1>4 DEF CompletePrivacyRequest, Insert, rows
<1>6. /\ \A q \in Requests \ {r} : row'[q] = row[q]
      /\ row'[r] = new \/ (row'[r] = row[r] /\ Fault(w))
  BY <1>1, <1>3, <1>5 DEF TablesTyped
<1>7. n <= met[r] + 1
  BY <1>3, <1>4, SoleFacts DEF AttemptsCountFaults
<1>8. /\ row'[r] \in RowState /\ row'[r].status \in {"completed", "processing"}
      /\ row'[r].attempts <= met'[r] + 1
      /\ row'[r].status # "completed" => row'[r].attempts <= met'[r]
  BY <1>2, <1>3, <1>4, <1>6, <1>7 DEF MetGrown
<1>9. Sole'
  BY <1>1, <1>3, <1>6, <1>8, NextJobSole
<1> QED BY <1>4, <1>6, <1>9 DEF Settled

LEMMA RetrySole ==
  ASSUME SingleWorker, SInv, NEW w \in Workers, RetryPrivacyRequest(w)
  PROVE  Sole' /\ (\A q \in Requests : row[q].status \in Settled => row'[q] = row[q])
<1> DEFINE r == job[w].req
           n == job[w].attempts
           status == IF n >= MaxAttempts THEN "failed" ELSE "retry"
           new == State(status, n)
<1>1. LocalsTyped /\ TablesTyped /\ wpc[w] = "retry" /\ (NoFault \/ Fault(w)) /\ NextJob(w)
  BY SoleFacts DEF RetryPrivacyRequest, At, Insert
<1>2. MetGrown
  BY <1>1, SoleFacts, MetGrows
<1>3. r \in Requests /\ n \in Nat /\ wpc[w] \in Working /\ n <= met[r]
  BY <1>1, JobIsRequest, SoleFacts DEF Working, OwnsRow
<1>4. /\ new \in RowState /\ new.status = status /\ new.attempts = n
      /\ row[r].status = "processing" /\ row[r].attempts = n /\ row[r] \in RowState
      /\ PutStatus(r, new) => row' = [row EXCEPT ![r] = new]
  BY <1>1, LastWrite
<1>5. row' = [row EXCEPT ![r] = new] \/ row' = row
  BY <1>4 DEF RetryPrivacyRequest, Insert, rows
<1>6. /\ \A q \in Requests \ {r} : row'[q] = row[q]
      /\ row'[r] = new \/ row'[r] = row[r]
  BY <1>1, <1>3, <1>5 DEF TablesTyped
<1>7. /\ row'[r] \in RowState /\ row'[r].status \in {"failed", "retry", "processing"}
      /\ row'[r].attempts <= met'[r]
      /\ row'[r].status = "failed" => met'[r] >= MaxAttempts
  <2>1. met[r] \in Nat /\ met'[r] \in Nat /\ met'[r] >= met[r]
    BY <1>2, <1>3 DEF MetGrown
  <2> QED BY <1>3, <1>4, <1>6, <2>1, WorkerAssumption
<1>8. row'[r].attempts <= met'[r] + 1
  BY <1>2, <1>3, <1>7 DEF MetGrown, RowState
<1>9. Sole'
  BY <1>1, <1>3, <1>6, <1>7, <1>8, NextJobSole
<1> QED BY <1>4, <1>6, <1>9 DEF Settled

\* The progress of the table a worker is at is what it left there.
LEMMA PutProgressAt ==
  ASSUME SInv, NEW w \in Workers, wpc[w] \in DeletionSteps, NEW new \in RowState,
         PutProgress(w, new), UNCHANGED <<job, table>>
  PROVE  /\ Progress(w)' \in {new, Progress(w)}
         /\ \A r \in Requests, t \in Tables :
              progress'[r][t] = progress[r][t] \/ (r = job[w].req /\ t = Table(w))
<1>1. job[w].req \in Requests /\ Table(w) \in Tables
  BY AtTable, TableOf DEF SInv
<1>2. PICK v \in {new, Progress(w)} : progress' = [progress EXCEPT ![job[w].req][Table(w)] = v]
  BY DEF PutProgress, Later, Progress
<1>3. progress \in [Requests -> [Tables -> RowState]]
  BY SoleFacts DEF TablesTyped
<1> QED BY <1>1, <1>2, <1>3 DEF Progress, Table

\* No finished table is reopened.
ProgressStays ==
  \A r \in Requests, t \in Tables :
    progress[r][t].status = "completed" => progress'[r][t] = progress[r][t]

LEMMA DeletionProgressSole ==
  ASSUME SingleWorker, SInv, NEW w \in Workers, DeletionProgress(w)
  PROVE  Sole'
<1>1. LocalsTyped /\ wpc[w] \in DeletionSteps /\ (NoFault \/ Fault(w))
      /\ UNCHANGED <<row, job, listed>> /\ UNCHANGED progress
  BY SoleFacts DEF DeletionProgress, At, DeletionSteps, NextTable, Goto, rows
<1>2. CASE NextTable(w)
  <2>1. wpc'[w] \in {"progress", "complete"}
    BY <1>1, <1>2 DEF NextTable, LocalsTyped
  <2> QED BY <1>1, <2>1, DeletionStepSole DEF Working, DeletionSteps
<1>3. CASE Goto(w, "start") /\ Progress(w).status # "completed"
  <2>1. wpc'[w] = "start" /\ Progress(w)'.status # "completed"
    BY <1>1, <1>3 DEF Goto, LocalsTyped, Progress, Table
  <2> QED BY <1>1, <2>1, DeletionStepSole DEF Working, DeletionSteps
<1>4. CASE Goto(w, "retry") /\ Fault(w)
  <2>1. wpc'[w] = "retry"
    BY <1>1, <1>4 DEF Goto, LocalsTyped
  <2>2. job[w].attempts <= met'[job[w].req]
    BY <1>1, <1>4, OwnTryIsPaid
  <2> QED BY <1>1, <2>1, <2>2, DeletionStepSole DEF Working, DeletionSteps
<1> QED BY <1>2, <1>3, <1>4 DEF DeletionProgress

LEMMA TableStepSole ==
  ASSUME SingleWorker, SInv, NEW w \in Workers,
         StartTable(w) \/ RequeueTable(w) \/ FinishTable(w) \/ Mutate(w)
  PROVE  Sole' /\ ProgressStays
<1>1. /\ LocalsTyped /\ TablesTyped /\ wpc[w] \in {"start", "requeue", "finish", "mutate"}
      /\ wpc[w] \in DeletionSteps /\ (NoFault \/ Fault(w))
      /\ UNCHANGED <<row, job, listed>>
  BY SoleFacts DEF StartTable, RequeueTable, FinishTable, Mutate, Insert, At, DeletionSteps,
     NextTable, Goto, rows
<1>2. Progress(w).status # "completed" /\ job[w].req \in Requests /\ Table(w) \in Tables
  BY <1>1, SoleFacts, AtTable, TableOf DEF OwnsRow, SInv
<1>3. PICK new \in RowState : /\ PutProgress(w, new) \/ UNCHANGED progress
                              /\ new.status = "completed" => wpc[w] = "finish"
  <2>1. tried[w] \in Nat
    BY <1>1 DEF LocalsTyped
  <2>2. \A s \in {"processing", "retry", "completed"} :
          State(s, tried[w] + 1) \in RowState /\ State(s, tried[w] + 1).status = s
    BY <2>1 DEF State, RowState, Statuses
  <2>3. CASE Mutate(w)
    BY <2>2, <2>3 DEF Mutate
  <2>4. CASE StartTable(w) \/ RequeueTable(w) \/ FinishTable(w)
    BY <2>2, <2>4 DEF StartTable, RequeueTable, FinishTable, Insert, At
  <2> QED BY <2>3, <2>4
<1>4. ProgressStays
  <2>1. CASE UNCHANGED progress
    BY <2>1 DEF ProgressStays
  <2>2. CASE PutProgress(w, new)
    <3>1. progress' = [progress EXCEPT ![job[w].req][Table(w)] = Later(new, Progress(w))]
      BY <2>2 DEF PutProgress, Progress
    <3> QED BY <1>1, <1>2, <3>1 DEF ProgressStays, Progress, TablesTyped
  <2> QED BY <1>3, <2>1, <2>2
<1>5. CASE \E step \in {"mutate", "finish"} : Goto(w, step) /\ wpc[w] # "finish"
  <2>1. wpc'[w] \in {"mutate", "finish"} /\ UNCHANGED <<job, table>>
    BY <1>1, <1>5 DEF Goto, LocalsTyped
  <2>2. Progress(w)'.status # "completed"
    BY <1>1, <1>2, <1>3, <1>5, <2>1, PutProgressAt DEF Progress, Table
  <2> QED BY <1>1, <1>4, <2>1, <2>2, DeletionStepSole DEF Working, DeletionSteps
<1>6. CASE Goto(w, "requeue") /\ Fault(w) /\ UNCHANGED progress
  <2>1. wpc'[w] = "requeue" /\ UNCHANGED <<job, table>>
    BY <1>1, <1>6 DEF Goto, LocalsTyped
  <2>2. Progress(w)'.status # "completed"
    BY <1>2, <1>6, <2>1 DEF Progress, Table
  <2>3. job[w].attempts <= met'[job[w].req]
    BY <1>1, <1>6, OwnTryIsPaid
  <2> QED BY <1>1, <1>4, <2>1, <2>2, <2>3, DeletionStepSole DEF Working, DeletionSteps
<1>7. CASE Goto(w, "retry") /\ (Fault(w) \/ wpc[w] = "requeue")
  <2>1. wpc'[w] = "retry"
    BY <1>1, <1>7 DEF Goto, LocalsTyped
  <2>2. job[w].attempts <= met'[job[w].req]
    BY <1>1, <1>7, OwnTryIsPaid
  <2> QED BY <1>1, <1>4, <2>1, <2>2, DeletionStepSole DEF Working, DeletionSteps
<1>8. CASE NextTable(w)
  <2>1. wpc'[w] \in {"progress", "complete"}
    BY <1>1, <1>8 DEF NextTable, LocalsTyped
  <2> QED BY <1>1, <1>4, <2>1, DeletionStepSole DEF Working, DeletionSteps
<1>9. CASE StartTable(w)
  BY <1>5, <1>7, <1>9 DEF StartTable, Insert, At
<1>10. CASE RequeueTable(w)
  BY <1>7, <1>10 DEF RequeueTable, Insert, At
<1>11. CASE FinishTable(w)
  BY <1>7, <1>8, <1>11 DEF FinishTable, Insert, At
<1>12. CASE Mutate(w)
  BY <1>5, <1>6, <1>12 DEF Mutate, Insert, At
<1> QED BY <1>9, <1>10, <1>11, <1>12

LEMMA CrashSole ==
  ASSUME SingleWorker, SInv, NEW w \in Workers, Crash(w)
  PROVE  Sole'
<1>1. LocalsTyped /\ TablesTyped /\ MetGrown /\ UNCHANGED row
  BY SoleFacts, MetGrows DEF Crash, rows
<1>2. wpc'[w] = "idle" /\ job'[w] = NoJob /\ listed'[w] = {}
  BY <1>1 DEF Crash, LocalsTyped
<1>3. OwnsRow(w)' /\ ListIsFresh(w)'
  BY <1>2 DEF OwnsRow, ListIsFresh, Working, DeletionSteps
<1>4. \A r \in Requests : row[r].attempts \in Nat
  BY <1>1 DEF TablesTyped, RowState
<1>5. \A r \in Requests :
        met[r] \in Nat /\ met'[r] \in Nat /\ met'[r] >= met[r] /\ MaxAttempts \in Nat
  BY <1>1, WorkerAssumption DEF MetGrown
<1>6. \A r \in Requests : AtWork(r) => wpc[w] \in Working /\ job[w].req = r
  BY SoleAtWork
<1>7. TriesArePaid'
  <2>. SUFFICES ASSUME NEW r \in Requests
                PROVE  /\ row[r].status = "absent" => row[r].attempts = 0
                       /\ row[r].status # "completed" => row[r].attempts <= met'[r]
    BY <1>1 DEF TriesArePaid
  <2>1. CASE AtWork(r)
    <3>1. /\ wpc[w] \in Working /\ job[w].req = r /\ row[r].attempts <= met[r] + 1
          /\ row[r].status = "absent" => row[r].attempts = 0
      BY <1>6, <2>1, SoleFacts DEF AttemptsCountFaults, TriesArePaid
    <3>2. Fault(w)
      BY DEF Crash
    <3>3. met'[r] = met[r] + 1
      BY <3>1, <3>2, MetGrows
    <3> QED BY <1>4, <1>5, <3>1, <3>3
  <2>2. CASE ~AtWork(r)
    BY <1>4, <1>5, <2>2, SoleFacts DEF TriesArePaid
  <2> QED BY <2>1, <2>2
<1>8. AttemptsCountFaults'
  <2>1. AttemptsCountFaults
    BY SoleFacts
  <2> QED BY <1>1, <1>4, <1>5, <2>1 DEF AttemptsCountFaults
<1> QED BY <1>3, <1>7, <1>8, SoleParts

\* Requests that come, leases that run out and rows that the store adds do not
\* touch a request that is at work.
LEMMA OutsideSole ==
  ASSUME SingleWorker, SInv,
         \/ \E r \in Requests : CreateRequest(r) \/ Elapse(r)
         \/ \E t \in Tables, i \in Items : Ingest(t, i)
  PROVE  Sole' /\ (\A q \in Requests : row[q].status \in Settled => row'[q] = row[q])
<1>1. UNCHANGED <<locals, progress, met>>
  BY DEF tally, CreateRequest, Elapse, Ingest
<1>2. \A q \in Requests :
        \/ row'[q] = row[q]
        \/ ~Recorded(q) /\ row'[q] = State("pending", 0)
  BY SoleFacts DEF SInv, PInv, TypeOK, CreateRequest, Elapse, Ingest, rows, State
<1>3. TablesTyped /\ LocalsTyped /\ met \in [Requests -> Nat]
  BY WorkerAssumption, TypeParts DEF TallyTyped, SInv, PInv
<1>4. ASSUME NEW w \in Workers
      PROVE  OwnsRow(w)' /\ ListIsFresh(w)'
  <2>1. OwnsRow(w) /\ ListIsFresh(w) /\ TriesArePaid
    BY SoleFacts
  <2>2. wpc[w] \in Working \cup {"mark"} => row'[job[w].req] = row[job[w].req]
    BY <1>2, JobIsRequest
  <2>3. OwnsRow(w)'
    BY <1>1, <2>1, <2>2 DEF OwnsRow, locals, Progress, Table
  <2>4. \A j \in listed[w] : row'[j.req].attempts = row[j.req].attempts
    BY <1>2, <1>3, <2>1 DEF TriesArePaid, LocalsTyped, Job, Recorded, State
  <2>5. ListIsFresh(w)'
    BY <1>1, <2>1, <2>4 DEF ListIsFresh, locals
  <2> QED BY <2>3, <2>5
<1>5. \A q \in Requests : AtWork(q)' <=> AtWork(q)
  BY <1>1 DEF AtWork, locals
<1>6. TriesArePaid' /\ AttemptsCountFaults'
  BY <1>1, <1>2, <1>3, <1>5 DEF SInv, TriesArePaid, AttemptsCountFaults, State
<1> QED BY <1>2, <1>4, <1>6 DEF Sole, Recorded, Settled

LEMMA SInvParts ==
  /\ SInv <=> PInv /\ Sole
  /\ SInv' <=> PInv' /\ Sole'
BY DEF SInv, Sole

SettledStays == \A q \in Requests : row[q].status \in Settled => row'[q] = row[q]

LEMMA InitSInv ==
  ASSUME Init
  PROVE  SInv
<1>1. PInv
  BY InitPInv
<1>2. \A w \in Workers : OwnsRow(w) /\ ListIsFresh(w)
  BY DEF Init, OwnsRow, ListIsFresh, Working, DeletionSteps
<1>3. TriesArePaid /\ AttemptsCountFaults
  BY DEF Init, TriesArePaid, AttemptsCountFaults, Absent, State
<1> QED BY <1>1, <1>2, <1>3 DEF SInv

\* One step of a single worker, or of the world around it.
LEMMA SoleStep ==
  ASSUME SingleWorker, SInv, [Next]_vars
  PROVE  SInv' /\ SettledStays /\ ProgressStays
<1>1. CASE UNCHANGED vars
  <2>1. Sole'
    BY <1>1 DEF vars, SInv, Sole, OwnsRow, ListIsFresh, TriesArePaid, AttemptsCountFaults,
       AtWork, Progress, Table
  <2> QED BY <1>1, <2>1, NextKeepsPInv, SInvParts DEF vars, SettledStays, ProgressStays
<1>2. ASSUME NEW w \in Workers, RunOnce(w) \/ Crash(w)
      PROVE  Sole' /\ SettledStays /\ ProgressStays
  <2>1. CASE PendingPrivacyRequests(w) \/ ReadClaim(w) \/ DeletionProgress(w) \/ Crash(w)
    BY <2>1, PendingSole, ReadClaimSole, DeletionProgressSole, CrashSole
    DEF PendingPrivacyRequests, ReadClaim, DeletionProgress, Crash, rows,
        SettledStays, ProgressStays
  <2>2. CASE MarkClaim(w) \/ CompletePrivacyRequest(w) \/ RetryPrivacyRequest(w)
    BY <2>2, MarkClaimSole, CompleteSole, RetrySole
    DEF MarkClaim, CompletePrivacyRequest, RetryPrivacyRequest, SettledStays, ProgressStays
  <2>3. CASE StartTable(w) \/ RequeueTable(w) \/ FinishTable(w) \/ Mutate(w)
    BY <2>3, TableStepSole DEF StartTable, RequeueTable, FinishTable, Mutate, rows, SettledStays
  <2> QED BY <1>2, <2>1, <2>2, <2>3 DEF RunOnce, DeleteTelemetryRequest
<1>3. CASE \/ \E r \in Requests : CreateRequest(r) \/ Elapse(r)
           \/ \E t \in Tables, i \in Items : Ingest(t, i)
  <2>1. Sole' /\ SettledStays
    BY <1>3, OutsideSole DEF SettledStays
  <2>2. UNCHANGED progress
    BY <1>3 DEF CreateRequest, Elapse, Ingest
  <2>3. SInv'
    BY <2>1, NextKeepsPInv, SInvParts
  <2> QED BY <2>1, <2>2, <2>3 DEF ProgressStays
<1>4. Sole' => SInv'
  BY NextKeepsPInv, SInvParts
<1> QED BY <1>1, <1>2, <1>3, <1>4 DEF Next

\* With one worker, no other statement comes between those of a request.
THEOREM SoleInvariance ==
  ASSUME SingleWorker
  PROVE  Spec => []SInv
<1>1. Init => SInv
  BY InitSInv
<1>2. SInv /\ [Next]_vars => SInv'
  BY SoleStep
<1> QED BY <1>1, <1>2, PTL DEF Spec

\* A request is given up only after MaxAttempts faults met a worker that had it in hand.
THEOREM AttemptsAreFaults ==
  ASSUME SingleWorker
  PROVE  Spec => []Inv
<1>1. SInv => Inv
  BY DEF SInv, PInv, Inv
<1> QED BY <1>1, SoleInvariance, PTL

\* No late or repeated step reopens a settled request or a finished table.
THEOREM SettlementIsFinal ==
  ASSUME SingleWorker
  PROVE  Spec => SettledIsFinal
<1>1. SInv /\ [Next]_vars =>
        [/\ \A r \in Requests : row[r].status \in Settled => row'[r] = row[r]
         /\ \A r \in Requests, t \in Tables :
              progress[r][t].status = "completed" => progress'[r][t] = progress[r][t]]_vars
  BY SoleStep DEF SettledStays, ProgressStays
<1> QED BY <1>1, SoleInvariance, PTL DEF Spec, SettledIsFinal

-----------------------------------------------------------------------------
(* A single worker implements ErasurePromise                               *)

\* The tables up to the k-th hold nothing of the scope.
LEMMA ClearUpToIs ==
  ASSUME NEW r \in Requests, NEW k \in Nat
  PROVE  /\ GoneBefore(r, k) <=> (k > 0 => Erasure!ClearUpTo(r, k - 1))
         /\ Erased(r) => Erasure!ClearUpTo(r, Len(TablesOf[r]))
<1>1. /\ TablesOf[r] \in Seq(Tables) /\ DOMAIN TablesOf[r] = 1..Len(TablesOf[r])
      /\ Len(TablesOf[r]) \in Nat
  BY WorkerAssumption
<1>2. GoneBefore(r, k) <=> (k > 0 => Erasure!ClearUpTo(r, k - 1))
  BY <1>1 DEF GoneBefore, Gone, Erasure!ClearUpTo
<1>3. Erased(r) => Erasure!ClearUpTo(r, Len(TablesOf[r]))
  BY DEF Erased, Gone, TablesTouched, Erasure!ClearUpTo
<1> QED BY <1>2, <1>3

LEMMA SameRowsInvisible ==
  ASSUME UNCHANGED row
  PROVE  RecordedMap' = RecordedMap /\ ReportedMap' = ReportedMap
BY DEF RecordedMap, ReportedMap, Recorded

\* A row that changes from one unfinished status to another is not seen outside.
LEMMA UnfinishedInvisible ==
  ASSUME UNCHANGED held, NEW r \in Requests,
         row[r].status \notin {"absent", "completed"},
         row'[r].status \notin {"absent", "completed"},
         \A q \in Requests \ {r} : row'[q] = row[q]
  PROVE  UNCHANGED Erasure!vars
BY DEF RecordedMap, ReportedMap, Recorded, Erasure!vars

LEMMA MarkClaimMaps ==
  ASSUME SInv, NEW w \in Workers, MarkClaim(w)
  PROVE  UNCHANGED Erasure!vars
<1> DEFINE r == job[w].req
           new == State("processing", tried[w] + 1)
<1>1. wpc[w] = "mark" /\ TablesTyped /\ UNCHANGED held
  BY SoleFacts DEF MarkClaim, At
<1>2. r \in Requests /\ row[r].status \in {"pending", "retry", "processing"}
  BY <1>1, JobIsRequest, SoleFacts DEF OwnsRow
<1>3. PutStatus(r, new) \/ row' = row
  BY DEF MarkClaim, rows
<1>4. /\ \A q \in Requests \ {r} : row'[q] = row[q]
      /\ row'[r] \in {new, row[r]}
  BY <1>1, <1>2, <1>3 DEF PutStatus, Later, TablesTyped
<1>5. row'[r].status \notin {"absent", "completed"}
  BY <1>2, <1>4 DEF State
<1> QED BY <1>1, <1>2, <1>4, <1>5, UnfinishedInvisible

LEMMA RetryMaps ==
  ASSUME SInv, NEW w \in Workers, RetryPrivacyRequest(w)
  PROVE  UNCHANGED Erasure!vars
<1> DEFINE r == job[w].req
<1>1. wpc[w] = "retry" /\ TablesTyped /\ UNCHANGED held
  BY SoleFacts DEF RetryPrivacyRequest, At
<1>2. r \in Requests /\ row[r].status = "processing"
  BY <1>1, JobIsRequest, LastWrite DEF Working
<1>3. PICK status \in {"failed", "retry"} :
        PutStatus(r, State(status, job[w].attempts)) \/ row' = row
  BY DEF RetryPrivacyRequest, Insert, rows
<1>4. /\ \A q \in Requests \ {r} : row'[q] = row[q]
      /\ row'[r] \in {State(status, job[w].attempts), row[r]}
  BY <1>1, <1>2, <1>3 DEF PutStatus, Later, TablesTyped
<1>5. row'[r].status \notin {"absent", "completed"}
  BY <1>2, <1>4 DEF State
<1> QED BY <1>1, <1>2, <1>4, <1>5, UnfinishedInvisible

\* A deletion is reported when every table it touches is clear.
LEMMA CompleteMaps ==
  ASSUME SInv, NEW w \in Workers, CompletePrivacyRequest(w)
  PROVE  [Erasure!Next]_(Erasure!vars)
<1> DEFINE r == job[w].req
           new == State("completed", job[w].attempts)
<1>1. wpc[w] = "complete" /\ TablesTyped /\ UNCHANGED held
  BY SoleFacts DEF CompletePrivacyRequest, At
<1>2. r \in Requests /\ Recorded(r) /\ (r \in OptOuts \/ Erased(r))
  BY <1>1, JobIsRequest, SoleFacts DEF WorkerKnows, Working
<1>3. /\ row[r].status = "processing" /\ new.status = "completed"
      /\ row' = [row EXCEPT ![r] = new] \/ row' = row
  BY <1>1, LastWrite DEF CompletePrivacyRequest, Insert, rows
<1>4. CASE row' = row
  BY <1>1, <1>4, SameRowsInvisible DEF Erasure!vars
<1>5. CASE row' = [row EXCEPT ![r] = new]
  <2>1. /\ \A q \in Requests \ {r} : row'[q] = row[q]
        /\ row'[r] = new
    BY <1>1, <1>2, <1>5 DEF TablesTyped
  <2>2. RecordedMap' = RecordedMap
    BY <1>2, <1>3, <2>1 DEF RecordedMap, Recorded
  <2>3. CASE r \in OptOuts
    <3>1. ReportedMap' = ReportedMap
      BY <2>1, <2>3 DEF ReportedMap
    <3> QED BY <1>1, <2>2, <3>1 DEF Erasure!vars
  <2>4. CASE r \notin OptOuts
    <3>1. ReportedMap' = ReportedMap \cup {r}
      BY <1>2, <1>3, <2>1, <2>4 DEF ReportedMap
    <3>2. Erasure!ClearUpTo(r, Len(TablesOf[r]))
      BY <1>2, <2>4, ClearUpToIs
    <3>3. Erasure!Report(r)
      BY <1>1, <1>2, <2>2, <2>4, <3>1, <3>2 DEF Erasure!Report, RecordedMap
    <3> QED BY <1>2, <3>3 DEF Erasure!Next
  <2> QED BY <2>3, <2>4
<1> QED BY <1>3, <1>4, <1>5

\* A mutation clears the table that the worker is at, those in front of it being
\* clear.
LEMMA MutateMaps ==
  ASSUME SInv, NEW w \in Workers, Mutate(w)
  PROVE  [Erasure!Next]_(Erasure!vars)
<1>1. wpc[w] \in DeletionSteps /\ UNCHANGED row
  BY DEF Mutate, At, DeletionSteps, rows
<1>2. PICK r \in Requests, k \in Nat :
        /\ k \in DOMAIN TablesOf[r]
        /\ r = job[w].req /\ r \notin OptOuts /\ Recorded(r) /\ GoneBefore(r, k)
        /\ Table(w) = TablesOf[r][k]
  BY <1>1, AtTable DEF SInv
<1>3. RecordedMap' = RecordedMap /\ ReportedMap' = ReportedMap
  BY <1>1, SameRowsInvisible
<1>4. CASE held' = held
  BY <1>3, <1>4 DEF Erasure!vars
<1>5. CASE held' = [held EXCEPT ![Table(w)] = @ \ ScopeOf[r]]
  <2>1. k > 0
    BY <1>2, WorkerAssumption
  <2>2. Erasure!ClearUpTo(r, k - 1)
    BY <1>2, <2>1, ClearUpToIs
  <2>3. row[r] = State("processing", job[w].attempts)
    BY <1>1, <1>2, SoleFacts DEF OwnsRow, Working
  <2>4. r \notin ReportedMap' /\ r \in RecordedMap \ OptOuts
    BY <1>2, <1>3, <2>3 DEF ReportedMap, RecordedMap, State
  <2>5. Erasure!Clear(r)
    BY <1>2, <1>3, <1>5, <2>2, <2>4 DEF Erasure!Clear
  <2> QED BY <2>5 DEF Erasure!Next
<1> QED BY <1>2, <1>4, <1>5 DEF Mutate, Insert

LEMMA OutsideMaps ==
  ASSUME SInv,
         \/ \E r \in Requests : CreateRequest(r) \/ Elapse(r)
         \/ \E t \in Tables, i \in Items : Ingest(t, i)
  PROVE  [Erasure!Next]_(Erasure!vars)
<1>1. ASSUME NEW r \in Requests, CreateRequest(r)
      PROVE  Erasure!Record(r)
  <2>1. \A q \in Requests : row'[q] = IF q = r THEN State("pending", 0) ELSE row[q]
    BY <1>1 DEF CreateRequest, SInv, PInv, TypeOK
  <2>2. RecordedMap' = RecordedMap \cup {r} /\ ReportedMap' = ReportedMap
    BY <1>1, <2>1 DEF CreateRequest, RecordedMap, ReportedMap, Recorded, State
  <2> QED BY <1>1, <2>2 DEF Erasure!Record, CreateRequest
<1>2. ASSUME NEW r \in Requests, Elapse(r)
      PROVE  UNCHANGED Erasure!vars
  BY <1>2, SameRowsInvisible DEF Elapse, Erasure!vars
<1>3. ASSUME NEW t \in Tables, NEW i \in Items, Ingest(t, i)
      PROVE  Erasure!Add(t, i)
  BY <1>3, SameRowsInvisible DEF Ingest, Erasure!Add, RecordedMap, rows
<1> QED BY <1>1, <1>2, <1>3 DEF Erasure!Next

LEMMA ErasureStep ==
  ASSUME SInv, [Next]_vars
  PROVE  [Erasure!Next]_(Erasure!vars)
<1>1. ASSUME UNCHANGED <<row, held>>
      PROVE  UNCHANGED Erasure!vars
  BY <1>1, SameRowsInvisible DEF Erasure!vars
<1>2. CASE UNCHANGED vars
  BY <1>1, <1>2 DEF vars
<1>3. ASSUME NEW w \in Workers,
             \/ PendingPrivacyRequests(w) \/ ReadClaim(w) \/ DeletionProgress(w)
             \/ StartTable(w) \/ RequeueTable(w) \/ FinishTable(w) \/ Crash(w)
      PROVE  UNCHANGED <<row, held>>
  BY <1>3 DEF PendingPrivacyRequests, ReadClaim, DeletionProgress, StartTable, RequeueTable,
     FinishTable, Crash, rows
<1>4. ASSUME NEW w \in Workers,
             \/ MarkClaim(w) \/ CompletePrivacyRequest(w) \/ RetryPrivacyRequest(w) \/ Mutate(w)
      PROVE  [Erasure!Next]_(Erasure!vars)
  BY <1>4, MarkClaimMaps, CompleteMaps, RetryMaps, MutateMaps
<1>5. CASE \/ \E r \in Requests : CreateRequest(r) \/ Elapse(r)
           \/ \E t \in Tables, i \in Items : Ingest(t, i)
  BY <1>5, OutsideMaps
<1> QED BY <1>1, <1>2, <1>3, <1>4, <1>5 DEF Next, RunOnce, DeleteTelemetryRequest

\* Whatever is retried, cut short or claimed again, a single worker's deletions
\* clear their tables in order and are reported, for good, once all are clear.
THEOREM WorkerKeepsErasurePromise ==
  ASSUME SingleWorker
  PROVE  Spec => KeepsErasurePromise
<1>1. Init => Erasure!Init
  BY DEF Init, Erasure!Init, RecordedMap, ReportedMap, Recorded, Absent, State
<1>2. SInv /\ [Next]_vars => [Erasure!Next]_(Erasure!vars)
  BY ErasureStep
<1> QED BY <1>1, <1>2, SoleInvariance, PTL DEF Spec, KeepsErasurePromise, Erasure!Spec
=============================================================================
